---- MODULE Spec2Model ----
(***************************************************************************)
(* Model of the iterative Dynamics / Optimizer engine of                   *)
(* ase/optimize/optimize.py: the observer list, the step counter, the      *)
(* step budget, the convergence test and the generator irun() with its     *)
(* suspension points, driven by an external caller.                        *)
(*                                                                         *)
(* Forces are integers in units of 0.01 eV/Ang, so the provider of the     *)
(* end-to-end scenario (0.02 in x for every atom) is <<2, 0, 0>>.          *)
(***************************************************************************)
EXTENDS Integers, Sequences, FiniteSets, TLC

VARIABLES
    nsteps,            \* Dynamics.nsteps
    max_steps,         \* Dynamics.max_steps
    fmax,              \* Optimizer.fmax: <<>> is None, <<f>> a number
    observers,         \* Dynamics.observers: sequence of [id, interval, bad]
    pos,               \* the system state (atoms.positions), as the number of updates applied
    profile,           \* the EnergyForceProvider attached to the atoms
    curv,              \* atoms.get_curvature: None when the atoms have no such
                       \* accessor, Some(kind) when they have
    gens,              \* the generator objects made by irun(), by the driver or inside run()
    force_consistent,  \* Optimizer.force_consistent: None, Some(TRUE) or Some(FALSE)
    restart,           \* Optimizer.restart: None or Some(path)
    restart_data,      \* Berny._restart_data: None or Some(payload)
    mem,               \* the memory of the step algorithm (Berny._berny)
    fs,                \* the files at the restart paths
    rank,              \* world.rank
    fcs,               \* the provider's answer to energy(force_consistent=True)
    fuse,              \* provider calls left before the provider fails once; -1: never
    fkind,             \* the exception the provider raises when it fails
    built,             \* "new": no Optimizer yet, "ready": constructed, "failed": __init__ raised
    ctor,              \* the calls the last Optimizer.__init__ made, and its arguments
    nctor,             \* number of Optimizer(...) constructions
    err,               \* the exception the last operation raised to the driver
    dumped,            \* per path, the payload the last dump() wrote there, if any
    cls,               \* the class of the instance: "Berny", "Optimizer" or "Dynamics"
    logfile,           \* Dynamics.logfile: None or Some(name)
    logtext,           \* what has been written to the log sink, line by line
    sinks,             \* the set_description calls received by the sinks, in order
    hist,              \* the driver's own attach, insert_observer, call_observers and
                       \* log calls, each with self before and after
    other              \* a second, independent instance and its generator

inst == <<nsteps, max_steps, fmax, observers, gens, force_consistent, restart,
          restart_data, mem, built, ctor, nctor>>
env == <<pos, profile, curv, fs, rank, fcs, fuse, fkind>>
life == <<cls, logfile, logtext, sinks, hist, other>>
vars == <<inst, env, err, dumped, life>>

(***************************************************************************)
(* Bounds of the model.                                                    *)
(***************************************************************************)
\* No step is modelled beyond this value of nsteps.
MaxNsteps == 4

\* Dynamics.__init__: "maximum number of steps placeholder with maxint"
DefaultMaxSteps == 100000000

\* The generator objects created on the instance, in order of creation:
\* each irun() call and each run() call makes one.
Gens == {1, 2}
Atoms == {1, 2}

\* Optional arguments: <<>> is None, <<v>> is the value v.
None == <<>>
Some(v) == <<v>>
IsNone(o) == o = <<>>
Val(o) == o[1]

\* The fmax arguments the driver passes (0.01, 0.03, -0.03).
FmaxArgs == {1, 3, -3}
\* The steps arguments the driver passes.
StepsArgs == {None, Some(0), Some(1), Some(MaxNsteps - 1)}

(***************************************************************************)
(* The EnergyForceProvider: forces as a function of the system state.      *)
(***************************************************************************)
Profiles == {"zero", "const2", "decay"}

Max0(a) == IF a > 0 THEN a ELSE 0

\* atoms.get_forces(): one 3-vector per atom.
\*   zero:   a fixed point, forces identically zero;
\*   const2: 0.02 in the x-direction for all atoms, whatever the positions;
\*   decay:  forces that shrink as the positions are updated; the largest
\*           per-atom norm is 3, 2, 1, 0, 0, ... after 0, 1, 2, 3, ... updates.
Forces(prof, p) ==
    CASE prof = "zero"   -> [a \in Atoms |-> <<0, 0, 0>>]
      [] prof = "const2" -> [a \in Atoms |-> <<2, 0, 0>>]
      [] prof = "decay"  -> [a \in Atoms |->
                               IF a = 1 THEN <<Max0(3 - p), 0, 0>>
                                        ELSE <<Max0(2 - p), -Max0(2 - p), Max0(1 - p)>>]

\* (forces ** 2).sum(axis=1): squared norm per atom
SqNorm(v) == v[1] * v[1] + v[2] * v[2] + v[3] * v[3]

\* (forces ** 2).sum(axis=1).max()
MaxSqForce(f) == CHOOSE m \in {SqNorm(f[a]) : a \in Atoms} :
                     \A a \in Atoms : SqNorm(f[a]) <= m

\* ForceTest with a non-strict comparison
ForceTestNonStrict(f, fm) == MaxSqForce(f) <= fm * fm

\* ForceTest comparing the norm with fmax itself
ForceTestSigned(f, fm) == fm > 0 /\ MaxSqForce(f) < fm * fm

\* Optimizer.converged(forces) for atoms without get_curvature
ForceTest(f, fm) == MaxSqForce(f) < fm * fm

(***************************************************************************)
(* Exceptions, files and the provider's failures.                          *)
(***************************************************************************)
NoExc == [type |-> "", path |-> ""]
Exc(t) == [type |-> t, path |-> ""]

\* ase.calculators.calculator.PropertyNotImplementedError
PropertyNotImplementedError == Exc("PropertyNotImplementedError")
\* any other failure of the provider
CalculatorError == Exc("CalculatorError")
\* an exception raised by an observer
ObserverError == Exc("ObserverError")
\* what the step algorithm raises when it cannot produce the next geometry
AlgorithmError == Exc("AlgorithmError")
\* raised by Dynamics.todict and Optimizer.read
NotImplementedError == Exc("NotImplementedError")
\* Dynamics.step: raise RuntimeError("step not implemented.")
StepNotImplemented == Exc("RuntimeError: step not implemented.")
\* an attribute that the object does not have
AttributeError == Exc("AttributeError")
\* a call with a keyword argument the function does not take
TypeError == Exc("TypeError")

\* The restart paths and what is at a path: no file, or a file with its text,
\* a sequence of characters.
Paths == {"a", "b"}
NoFile == [exists |-> FALSE, text |-> <<>>]
File(text) == [exists |-> TRUE, text |-> text]

\* a restart file cut short while it was written
Garbage == File(<<"{">>)

\* The JSON text of a payload. The payloads of the model are natural numbers
\* (the memory of the step algorithm); JSON writes them in decimal.
Digits == <<"0", "1", "2", "3", "4", "5", "6", "7", "8", "9">>

IsDigit(c) == \E i \in 1..10 : Digits[i] = c

DigitVal(c) == CHOOSE v \in 0..9 : Digits[v + 1] = c

\* ase.io.jsonio.write_json(fd, data): the text written
RECURSIVE write_json(_)
write_json(data) ==
    IF data < 10 THEN <<Digits[data + 1]>>
    ELSE write_json(data \div 10) \o <<Digits[(data % 10) + 1]>>

\* whether ase.io.jsonio.read_json(fd) decodes the text: a JSON number has
\* digits only and no leading zero
Decodes(text) ==
    /\ text # <<>>
    /\ \A i \in 1..Len(text) : IsDigit(text[i])
    /\ Len(text) > 1 => text[1] # "0"

\* ase.io.jsonio.read_json(fd, always_array=False): the payload of the text
RECURSIVE read_json(_)
read_json(text) ==
    IF Len(text) = 1 THEN DigitVal(text[1])
    ELSE read_json(SubSeq(text, 1, Len(text) - 1)) * 10 + DigitVal(text[Len(text)])

\* os.path.isfile(path)
isfile(files, path) == files[path].exists

(***************************************************************************)
(* The Dynamics object as a record d: the fields of self that the run loop *)
(* reads and writes, what it reaches through self.atoms and the files, ev, *)
(* the calls made so far on behalf of the caller (force evaluations, log   *)
(* lines, observer calls, steps, yields), and exc, the exception that is   *)
(* propagating (NoExc when none is).                                       *)
(***************************************************************************)
Ev(k, n, a) == [k |-> k, n |-> n, a |-> a]

Bit(b) == IF b THEN 1 ELSE 0

Ok(d) == d.exc = NoExc

\* a statement that is skipped while an exception propagates
Record(d, e) == IF Ok(d) THEN [d EXCEPT !.ev = Append(@, e)] ELSE d

\* raise x
Raise(d, x) == IF Ok(d) THEN [d EXCEPT !.exc = x] ELSE d

\* what the provider does with a request: NoExc when it answers
Outcome(d, k, flag) ==
    IF d.fuse = 0 THEN d.fkind
    ELSE IF k = "energy" /\ flag /\ d.fcs = "noimpl" THEN PropertyNotImplementedError
    ELSE IF k = "energy" /\ flag /\ d.fcs = "crash" THEN CalculatorError
    ELSE NoExc

\* a request to the provider: it answers (and the call is recorded) or raises
ProviderCall(d, k, flag) ==
    IF ~Ok(d) THEN d
    ELSE LET d1 == [d EXCEPT !.fuse = IF @ >= 0 THEN @ - 1 ELSE @]
         IN  IF Outcome(d, k, flag) = NoExc
                 THEN Record(d1, Ev(k, d.nsteps, Bit(flag)))
                 ELSE Raise(d1, Outcome(d, k, flag))

\* self.atoms.get_forces()
get_forces(d) == ProviderCall(d, "forces", FALSE)

\* self.atoms.get_potential_energy(force_consistent=flag)
get_potential_energy(d, flag) == ProviderCall(d, "energy", flag)

\* abs(interval)
Abs(i) == IF i < 0 THEN -i ELSE i

\* Triggered with the periodic rule skipping step 0
TriggeredNotAtZero(interval, n) ==
    IF interval > 0
        THEN (n % interval) = 0 /\ n > 0
        ELSE n = Abs(interval)

\* Triggered with the one-shot rule firing from step |interval| on
TriggeredFromThenOn(interval, n) ==
    IF interval > 0
        THEN (n % interval) = 0
        ELSE n >= Abs(interval)

\* Dynamics.call_observers: the trigger rule of one entry
Triggered(interval, n) ==
    IF interval > 0
        THEN (n % interval) = 0
        ELSE n = Abs(interval)

\* ObserverCalls walking the list from its end
RECURSIVE ObserverCallsReversed(_, _)
ObserverCallsReversed(obs, n) ==
    IF obs = <<>> THEN <<>>
    ELSE ObserverCallsReversed(Tail(obs), n)
         \o (IF Triggered(Head(obs).interval, n)
                THEN <<Ev("obs", n, Head(obs).id)>> ELSE <<>>)

\* ObserverCalls going on with the list after an observer has raised
RECURSIVE ObserverCallsIsolated(_, _)
ObserverCallsIsolated(obs, n) ==
    IF obs = <<>> THEN <<>>
    ELSE (IF Triggered(Head(obs).interval, n)
             THEN <<Ev("obs", n, Head(obs).id)>> ELSE <<>>)
         \o ObserverCallsIsolated(Tail(obs), n)

\* Dynamics.call_observers: the entries in list order, each called when triggered;
\* the loop ends at the first observer that raises
RECURSIVE ObserverCalls(_, _)
ObserverCalls(obs, n) ==
    IF obs = <<>> THEN <<>>
    ELSE IF Triggered(Head(obs).interval, n)
             THEN <<Ev("obs", n, Head(obs).id)>>
                  \o (IF Head(obs).bad THEN <<>> ELSE ObserverCalls(Tail(obs), n))
             ELSE ObserverCalls(Tail(obs), n)

\* whether a call made by call_observers raised
ObserverRaised(obs, calls) ==
    calls # <<>> /\ \E i \in 1..Len(obs) :
        obs[i].id = calls[Len(calls)].a /\ obs[i].bad

\* call_observers dropping from the list the observers it has called
call_observers_once(d) ==
    IF ~Ok(d) THEN d
    ELSE LET calls == ObserverCalls(d.observers, d.nsteps)
         IN  [d EXCEPT !.ev = @ \o calls,
                       !.observers = SelectSeq(@, LAMBDA e :
                           \A i \in 1..Len(calls) : calls[i].a # e.id),
                       !.exc = IF ObserverRaised(d.observers, calls)
                                   THEN ObserverError ELSE @]

\* Dynamics.call_observers()
call_observers(d) ==
    IF ~Ok(d) THEN d
    ELSE LET calls == ObserverCalls(d.observers, d.nsteps)
         IN  [d EXCEPT !.ev = @ \o calls,
                       !.exc = IF ObserverRaised(d.observers, calls)
                                   THEN ObserverError ELSE @]

\* WriteLog with the header written only into an empty sink
WriteLogHeaderOnce(d) ==
    IF Ok(d) /\ ~IsNone(d.logfile)
        THEN [d EXCEPT !.logtext = @ \o (IF d.logtext = <<>>
                                             THEN <<Ev("header", d.nsteps, 0)>>
                                             ELSE <<>>)
                                     \o <<Ev("line", d.nsteps, 0)>>]
        ELSE d

\* Optimizer.log, lines 307-327: with a log sink, the header when nsteps is 0,
\* then the data line with nsteps
WriteLog(d) ==
    IF Ok(d) /\ ~IsNone(d.logfile)
        THEN [d EXCEPT !.logtext = @ \o (IF d.nsteps = 0
                                             THEN <<Ev("header", d.nsteps, 0)>>
                                             ELSE <<>>)
                                     \o <<Ev("line", d.nsteps, 0)>>]
        ELSE d

\* log probing the provider again and using what it answers now
log_reprobes(d) ==
    WriteLog(Record(get_potential_energy(get_forces(d),
                                         Outcome(d, "energy", TRUE) = NoExc),
                    Ev("log", d.nsteps, 0)))

\* Optimizer.log(forces=None): forces, energy with the force-consistency flag,
\* then the text for the log sink; Dynamics.log is a placeholder
log(d) ==
    IF d.cls = "Dynamics" THEN d
    ELSE WriteLog(Record(get_potential_energy(get_forces(d), Val(d.force_consistent)),
                         Ev("log", d.nsteps, 0)))

\* atoms.get_curvature(), for atoms that have the accessor: the curvature of
\* the energy along the tracked mode at the system state p.
\*   negative:  -1 everywhere;   flat: 0 everywhere;   positive: 1 everywhere;
\*   softening: 1, 0, -1, -2, ... after 0, 1, 2, 3, ... updates.
get_curvature(kind, p) ==
    CASE kind = "negative"  -> -1
      [] kind = "flat"      -> 0
      [] kind = "positive"  -> 1
      [] kind = "softening" -> 1 - p

\* converged accepting a curvature of zero
converged_flat_passes(d) ==
    /\ d.cls # "Dynamics"
    /\ ForceTest(Forces(d.profile, d.pos), Val(d.fmax))
    /\ IsNone(d.curv) \/ get_curvature(Val(d.curv), d.pos) <= 0

\* Optimizer.converged(forces=None): the value (d.fmax is set by irun()/run());
\* with hasattr(self.atoms, "get_curvature") the force test and a negative
\* curvature, else the force test alone. Dynamics.converged() returns False.
converged(d) ==
    IF d.cls = "Dynamics" THEN FALSE
    ELSE IF ~IsNone(d.curv)
    THEN /\ ForceTest(Forces(d.profile, d.pos), Val(d.fmax))
         /\ get_curvature(Val(d.curv), d.pos) < 0
    ELSE ForceTest(Forces(d.profile, d.pos), Val(d.fmax))

\* the provider call of self.converged(): Optimizer.converged, called without
\* forces, asks the provider for them; Dynamics.converged asks for nothing
converged_forces(d) == IF d.cls = "Dynamics" THEN d ELSE get_forces(d)

\* dump writing on every rank
dump_any_rank(d, data) ==
    IF Ok(d) /\ ~IsNone(d.restart)
        THEN [Record(d, Ev("dump", d.nsteps, data)) EXCEPT
                  !.fs[Val(d.restart)] = File(write_json(data)),
                  !.dumped[Val(d.restart)] = Some(data)]
        ELSE d

\* dump opening the file for appending
dump_append(d, data) ==
    IF Ok(d) /\ d.rank = 0 /\ ~IsNone(d.restart)
        THEN [Record(d, Ev("dump", d.nsteps, data)) EXCEPT
                  !.fs[Val(d.restart)] = File(@.text \o write_json(data)),
                  !.dumped[Val(d.restart)] = Some(data)]
        ELSE d

\* Optimizer.dump(data): rank 0 with a restart path opens the file for
\* writing and writes the payload; dumped remembers the payload written last
dump(d, data) ==
    IF Ok(d) /\ d.rank = 0 /\ ~IsNone(d.restart)
        THEN [Record(d, Ev("dump", d.nsteps, data)) EXCEPT
                  !.fs[Val(d.restart)] = File(write_json(data)),
                  !.dumped[Val(d.restart)] = Some(data)]
        ELSE d

\* an exception that was raised while step() ran is marked as such
InStep(d, r) == IF Ok(d) /\ ~Ok(r) THEN [r EXCEPT !.in_step = TRUE] ELSE r

\* step leaving the restart file alone
step_without_dump(d) ==
    LET d1 == get_potential_energy(get_forces(d), FALSE)
        d2 == IF Ok(d1) THEN [d1 EXCEPT !.mem = @ + 1] ELSE d1
    IN  IF Ok(d2) THEN [Record(d2, Ev("step", d.nsteps, 0)) EXCEPT !.pos = @ + 1]
        ELSE InStep(d, d2)

\* step doing nothing, and returning, where no step algorithm is supplied
step_missing_is_noop(d) ==
    LET d1 == get_potential_energy(get_forces(d), FALSE)
        d2 == IF Ok(d1) THEN dump([d1 EXCEPT !.mem = @ + 1], d1.mem + 1) ELSE d1
    IN  IF d.cls # "Berny" THEN Record(d, Ev("step", d.nsteps, 0))
        ELSE IF Ok(d2) THEN [Record(d2, Ev("step", d.nsteps, 0)) EXCEPT !.pos = @ + 1]
        ELSE InStep(d, d2)

\* step writing the restart record after the positions are updated
step_dumps_last(d) ==
    LET d1 == get_potential_energy(get_forces(d), FALSE)
        d2 == IF Ok(d1) THEN [d1 EXCEPT !.mem = @ + 1] ELSE d1
        d3 == IF d.halt THEN Raise(d2, AlgorithmError) ELSE d2
        d4 == IF Ok(d3) THEN [Record(d3, Ev("step", d.nsteps, 0)) EXCEPT !.pos = @ + 1]
                        ELSE d3
    IN  IF d.cls # "Berny" THEN InStep(d, Raise(d, StepNotImplemented))
        ELSE InStep(d, dump(d4, d4.mem))

\* Berny.step(forces=None): forces, energy, the algorithm takes them in
\* (send), its memory is dumped, the algorithm gives the next geometry (next),
\* then the positions are updated. With d.halt the algorithm raises in next.
\* Dynamics.step, which the other classes inherit, raises RuntimeError.
step(d) ==
    LET d1 == get_potential_energy(get_forces(d), FALSE)
        d2 == IF Ok(d1) THEN dump([d1 EXCEPT !.mem = @ + 1], d1.mem + 1) ELSE d1
        d3 == IF d.halt THEN Raise(d2, AlgorithmError) ELSE d2
    IN  IF d.cls # "Berny" THEN InStep(d, Raise(d, StepNotImplemented))
        ELSE IF Ok(d3) THEN [Record(d3, Ev("step", d.nsteps, 0)) EXCEPT !.pos = @ + 1]
        ELSE InStep(d, d3)

\* the number of step() calls recorded in ev
NStepCallsIn(ev) == Cardinality({i \in 1..Len(ev) : ev[i].k = "step"})

\* d with nsteps += 1
Increment(d) == IF Ok(d) THEN [d EXCEPT !.nsteps = @ + 1] ELSE d

\* how a resumption ends: at a yield, or with the exception leaving the
\* generator, which is then finished
Settle(r) == IF Ok(r.d) THEN r ELSE [d |-> r.d, pc |-> "raised", y |-> FALSE]

\* TakeStep with the log and observer calls of the new step made before step()
TakeStepLogsFirst(d1) ==
    IF d1.nsteps >= MaxNsteps
        THEN [d |-> d1, pc |-> "capped", y |-> FALSE]
        ELSE LET d2 == call_observers(log([d1 EXCEPT !.nsteps = @ + 1]))
                 d3 == Increment(step([d2 EXCEPT !.nsteps = d1.nsteps]))
             IN  [d |-> Record(d3, Ev("yield", d3.nsteps, 0)), pc |-> "yloop", y |-> FALSE]

\* TakeStep counting the step whether step() returned or raised
TakeStepCountsFailure(d1) ==
    IF d1.nsteps >= MaxNsteps
        THEN [d |-> d1, pc |-> "capped", y |-> FALSE]
        ELSE LET d2 == step(d1)
                 d3 == [d2 EXCEPT !.nsteps = @ + 1]
             IN  [d |-> Record(d3, Ev("yield", d3.nsteps, 0)), pc |-> "yloop", y |-> FALSE]

\* Dynamics.irun, lines 145-151: step(); nsteps += 1; yield False
TakeStep(d1) ==
    IF d1.nsteps >= MaxNsteps
        THEN [d |-> d1, pc |-> "capped", y |-> FALSE]
        ELSE LET d2 == step(d1)
                 d3 == Increment(d2)
             IN  [d |-> Record(d3, Ev("yield", d3.nsteps, 0)), pc |-> "yloop", y |-> FALSE]

\* LeaveLoop reporting budget exhaustion when the budget is used up
LeaveLoopBudgetFalse(d1) ==
    LET d2 == converged_forces(d1)
        c == converged(d2) /\ d2.nsteps < d2.max_steps
    IN  [d |-> Record(d2, Ev("yield", d2.nsteps, Bit(c))), pc |-> "yfinal", y |-> c]

\* Dynamics.irun, line 158: yield self.converged()
LeaveLoop(d1) ==
    LET d2 == converged_forces(d1)
    IN  [d |-> Record(d2, Ev("yield", d2.nsteps, Bit(converged(d2)))),
         pc |-> "yfinal", y |-> converged(d2)]

\* IrunLoop as a do-while: the first test of the loop skips the convergence check
IrunLoopStepsFirst(d) ==
    LET d1 == converged_forces(d)
    IN  Settle(IF (NStepCallsIn(d.ev) = 0 \/ ~converged(d1)) /\ d1.nsteps < d1.max_steps
                   THEN TakeStep(d1) ELSE LeaveLoop(d1))

\* IrunLoop with the budget test off by one
IrunLoopOffByOne(d) ==
    LET d1 == converged_forces(d)
    IN  Settle(IF ~converged(d1) /\ d1.nsteps <= d1.max_steps
                   THEN TakeStep(d1) ELSE LeaveLoop(d1))

\* IrunLoop without the budget test
IrunLoopNoBudget(d) ==
    LET d1 == converged_forces(d)
    IN  Settle(IF ~converged(d1) THEN TakeStep(d1) ELSE LeaveLoop(d1))

\* IrunLoop testing the budget against the steps this sequence has taken itself
IrunLoopOwnAllowance(d) ==
    LET d1 == converged_forces(d)
    IN  Settle(IF ~converged(d1) /\ NStepCallsIn(d.ev) < d1.max_steps - d.ev[1].n
                   THEN TakeStep(d1) ELSE LeaveLoop(d1))

\* Dynamics.irun, lines 143-158: from the loop test to the next yield; y is the
\* value yielded. pc "capped" marks a step beyond the bound of the model,
\* pc "raised" an exception that left the generator.
IrunLoop(d) ==
    LET d1 == converged_forces(d)     \* the forces read by self.converged()
    IN  Settle(IF ~converged(d1) /\ d1.nsteps < d1.max_steps
                   THEN TakeStep(d1)         \* step(); nsteps += 1; yield False
                   ELSE LeaveLoop(d1))       \* yield self.converged()

\* FirstLog with every run counting its steps from 0
FirstLogResets(d) == call_observers(log([d EXCEPT !.nsteps = 0]))

\* FirstLog deciding by the step count at the first pull of the sequence
FirstLogAtFirstPull(d) == IF d.ev[1].n = 0 THEN call_observers(log(d)) ELSE d

\* The step-0 notification of Dynamics.irun, lines 138-140
FirstLog(d) == IF d.nsteps = 0 THEN call_observers(log(d)) ELSE d

\* StepLog calling the observers before the log line is made
StepLogObserversFirst(d) == log(call_observers(d))

\* The notification after a step, Dynamics.irun, lines 153-155
StepLog(d) == call_observers(log(d))

\* Resume with the step-0 notification made before the first yield
ResumeLogsBeforeYield(d, pc) ==
    CASE pc = "start"  -> LET d1 == FirstLog(get_forces(d))
                          IN  Settle([d |-> Record(d1, Ev("yield", d1.nsteps, 0)),
                                      pc |-> "y0", y |-> FALSE])
      [] pc = "y0"     -> IrunLoop(d)
      [] pc = "yloop"  -> IrunLoop(StepLog(d))
      [] pc = "yfinal" -> [d |-> d, pc |-> "done", y |-> FALSE]
      [] OTHER         -> [d |-> d, pc |-> pc, y |-> FALSE]

\* next() on the generator of Dynamics.irun suspended at pc: run to the next yield
Resume(d, pc) ==
    CASE pc = "start"  -> LET d1 == get_forces(d)
                          IN  Settle([d |-> Record(d1, Ev("yield", d1.nsteps, 0)),
                                      pc |-> "y0", y |-> FALSE])
      [] pc = "y0"     -> IrunLoop(FirstLog(d))
      [] pc = "yloop"  -> IrunLoop(StepLog(d))
      [] pc = "yfinal" -> [d |-> d, pc |-> "done", y |-> FALSE]   \* StopIteration
      [] OTHER         -> [d |-> d, pc |-> pc, y |-> FALSE]

\* Dynamics.run: for converged in Dynamics.irun(self): pass
\* last is the loop variable `converged`
RECURSIVE Drain(_, _, _)
Drain(d, pc, last) ==
    IF pc \in {"done", "capped", "raised"} THEN [d |-> d, pc |-> pc, ret |-> last]
    ELSE LET r == Resume(d, pc)
         IN  Drain(r.d, r.pc, IF r.pc \in {"done", "raised"} THEN last ELSE r.y)

\* run returning the first value of the sequence instead of draining it
RunFirstValue(d) ==
    LET r == Resume(d, "start") IN [d |-> r.d, pc |-> "done", ret |-> r.y]

\* Dynamics.run: return converged
run(d) == Drain(d, "start", FALSE)

(***************************************************************************)
(* The observer list and the sinks.  An observer object is a record: its   *)
(* id, whether it has __call__, write and set_description, and whether it  *)
(* raises when called.                                                     *)
(***************************************************************************)
Fn(id, call, write, describe, bad) ==
    [id |-> id, call |-> call, write |-> write, describe |-> describe, bad |-> bad]

\* a function
Callable(id) == Fn(id, TRUE, FALSE, FALSE, FALSE)
\* a function that raises
BadCallable(id) == Fn(id, TRUE, FALSE, FALSE, TRUE)
\* an object with a write method only
Writer(id) == Fn(id, FALSE, TRUE, FALSE, FALSE)
\* a trajectory sink: write and set_description, not callable
TrajectorySink(id) == Fn(id, FALSE, TRUE, TRUE, FALSE)

\* the entry (function, interval, args, kwargs) of the observer list; via is
\* the bound method that was registered
Entry(function, interval) ==
    [id |-> function.id, interval |-> interval, bad |-> function.bad,
     via |-> IF function.call THEN "call" ELSE "write"]

\* todict with the restart path left out when there is none
todict_restart_if_any(d) ==
    IF d.cls = "Dynamics" THEN [d |-> Raise(d, NotImplementedError), value |-> <<>>]
    ELSE [d |-> d,
          value |-> [type |-> "optimization", optimizer |-> d.cls]
                    @@ (IF "max_steps" \in d.attrs
                            THEN "max_steps" :> d.max_steps ELSE <<>>)
                    @@ (IF "restart" \in d.attrs /\ ~IsNone(d.restart)
                            THEN "restart" :> d.restart ELSE <<>>)]

\* Optimizer.todict(): the type, the class name, and those of maxstep, alpha,
\* max_steps and restart that are attributes of self (Berny and Optimizer have
\* neither maxstep nor alpha). Dynamics.todict() raises NotImplementedError.
todict(d) ==
    IF d.cls = "Dynamics" THEN [d |-> Raise(d, NotImplementedError), value |-> <<>>]
    ELSE [d |-> d,
          value |-> [type |-> "optimization", optimizer |-> d.cls]
                    @@ (IF "max_steps" \in d.attrs
                            THEN "max_steps" :> d.max_steps ELSE <<>>)
                    @@ (IF "restart" \in d.attrs
                            THEN "restart" :> d.restart ELSE <<>>)]

\* attach describing the instance to every observer
attach_describes_all(d, function, interval) ==
    IF ~Ok(d) THEN d
    ELSE LET t == todict(d)
             d1 == IF Ok(t.d)
                       THEN [d EXCEPT !.sinks = Append(@,
                                [id |-> function.id,
                                 desc |-> ("interval" :> interval) @@ t.value])]
                       ELSE t.d
             d2 == IF ~function.call /\ ~function.write
                       THEN Raise(d1, AttributeError) ELSE d1
         IN  IF Ok(d2) THEN [d2 EXCEPT !.observers = Append(@, Entry(function, interval))]
             ELSE d2

\* Dynamics.attach(function, interval): a sink with set_description receives
\* todict() updated with the interval; what is not callable is registered by
\* its write method; the entry is appended
attach(d, function, interval) ==
    IF ~Ok(d) THEN d
    ELSE LET t == todict(d)
             d1 == IF ~function.describe THEN d
                   ELSE IF Ok(t.d)
                       THEN [d EXCEPT !.sinks = Append(@,
                                [id |-> function.id,
                                 desc |-> ("interval" :> interval) @@ t.value])]
                       ELSE t.d
             d2 == IF ~function.call /\ ~function.write
                       THEN Raise(d1, AttributeError) ELSE d1
         IN  IF Ok(d2) THEN [d2 EXCEPT !.observers = Append(@, Entry(function, interval))]
             ELSE d2

\* ListInsert putting x behind the entry at the position
ListInsertBehind(seq, position, x) ==
    LET n == Len(seq)
        at == IF position < 0 THEN (IF n + position < 0 THEN 0 ELSE n + position)
              ELSE IF position > n THEN n ELSE position
        to == IF at < n THEN at + 1 ELSE n
    IN  SubSeq(seq, 1, to) \o <<x>> \o SubSeq(seq, to + 1, n)

\* list.insert(position, x): a negative position counts from the end, and a
\* position outside the list is the nearest end
ListInsert(seq, position, x) ==
    LET n == Len(seq)
        at == IF position < 0 THEN (IF n + position < 0 THEN 0 ELSE n + position)
              ELSE IF position > n THEN n ELSE position
    IN  SubSeq(seq, 1, at) \o <<x>> \o SubSeq(seq, at + 1, n)

\* Dynamics.insert_observer(function, position, interval): what is not
\* callable is registered by its write method; no description is given
insert_observer(d, function, position, interval) ==
    IF ~Ok(d) THEN d
    ELSE IF ~function.call /\ ~function.write THEN Raise(d, AttributeError)
    ELSE [d EXCEPT !.observers = ListInsert(@, position, Entry(function, interval))]

(***************************************************************************)
(* Construction: Berny.__init__ over Optimizer.__init__ over               *)
(* Dynamics.__init__.                                                      *)
(***************************************************************************)
RestartError(path) == [type |-> "RestartError", path |-> path]

\* set_force_consistent absorbing every failure of the probe
set_force_consistent_absorbs_all(d) ==
    LET d0 == Record(d, Ev("set_force_consistent", 0, 0))
        d1 == get_potential_energy(d0, TRUE)
    IN  IF Ok(d1) THEN [d1 EXCEPT !.force_consistent = Some(TRUE)]
        ELSE [d1 EXCEPT !.exc = NoExc, !.force_consistent = Some(FALSE)]

\* Optimizer.set_force_consistent(): probe the provider for a force-consistent
\* energy; only PropertyNotImplementedError is caught
set_force_consistent(d) ==
    LET d0 == Record(d, Ev("set_force_consistent", 0, 0))
        d1 == get_potential_energy(d0, TRUE)
    IN  IF d1.exc = PropertyNotImplementedError
            THEN [d1 EXCEPT !.exc = NoExc, !.force_consistent = Some(FALSE)]
        ELSE IF Ok(d1) THEN [d1 EXCEPT !.force_consistent = Some(TRUE)]
        ELSE d1

\* Optimizer.initialize()
initialize(d) == Record(d, Ev("initialize", 0, 0))

\* load returning nothing when the file does not decode
load_lenient(d) ==
    LET text == d.fs[Val(d.restart)].text
    IN  IF Decodes(text) THEN [d |-> d, value |-> Some(read_json(text))]
        ELSE [d |-> d, value |-> None]

\* Optimizer.load(): the decoded restart file, or RestartError naming the path
load(d) ==
    LET text == d.fs[Val(d.restart)].text
    IN  IF Decodes(text) THEN [d |-> d, value |-> Some(read_json(text))]
        ELSE [d |-> Raise(d, RestartError(Val(d.restart))), value |-> None]

\* Berny.read(): self._restart_data = self.load().
\* Optimizer.read() raises NotImplementedError.
read(d) ==
    LET r == load(Record(d, Ev("read", 0, 0)))
    IN  IF d.cls # "Berny" THEN Raise(Record(d, Ev("read", 0, 0)), NotImplementedError)
        ELSE IF Ok(r.d) THEN [r.d EXCEPT !.restart_data = r.value] ELSE r.d

\* the end of Optimizer.__init__ with read() and initialize() both called when
\* the restart file exists
ReadOrInitializeBoth(d) ==
    IF ~Ok(d) THEN d
    ELSE IF IsNone(d.restart) \/ ~isfile(d.fs, Val(d.restart))
        THEN initialize(d) ELSE initialize(read(d))

\* Optimizer.__init__, lines 252-256
ReadOrInitialize(d) ==
    IF ~Ok(d) THEN d
    ELSE IF IsNone(d.restart) \/ ~isfile(d.fs, Val(d.restart))
        THEN initialize(d) ELSE read(d)

\* IOContext.openfile(file, mode='a', comm=world): the log sink __init__
\* keeps. On rank 0 it is what was given: "-" is the standard output. On any
\* other rank it is the null device, whatever was given. A sink that keeps
\* nothing of what is written to it is None here, as is no sink.
openfile(d, file) == IF d.rank # 0 THEN None ELSE file

\* the id of the trajectory sink given to __init__
TrajectoryId == 0

\* DynamicsInit registering the trajectory sink for the initial state only
DynamicsInitSinkOnce(d, logArg, trajArg) ==
    LET d1 == [d EXCEPT !.logfile = openfile(d, logArg), !.observers = <<>>, !.nsteps = 0,
                        !.max_steps = DefaultMaxSteps,
                        !.attrs = @ \cup {"max_steps"}]
    IN  IF trajArg THEN attach(d1, TrajectorySink(TrajectoryId), 0) ELSE d1

\* Dynamics.__init__(atoms, logfile, trajectory): the log sink as openfile()
\* gives it, an empty observer list, nsteps 0, the max_steps placeholder, and
\* the trajectory sink attached with the default interval
DynamicsInit(d, logArg, trajArg) ==
    LET d1 == [d EXCEPT !.logfile = openfile(d, logArg), !.observers = <<>>, !.nsteps = 0,
                        !.max_steps = DefaultMaxSteps,
                        !.attrs = @ \cup {"max_steps"}]
    IN  IF trajArg THEN attach(d1, TrajectorySink(TrajectoryId), 1) ELSE d1

\* OptimizerInit probing the provider whatever the flag is
OptimizerInitAlwaysProbes(d, restartArg, logArg, trajArg, fcArg) ==
    LET d0 == DynamicsInit(d, logArg, trajArg)
        d1 == IF Ok(d0) THEN [d0 EXCEPT !.force_consistent = fcArg] ELSE d0
        d2 == set_force_consistent(d1)
        d3 == IF Ok(d2) THEN [d2 EXCEPT !.restart = restartArg, !.fmax = None,
                                        !.attrs = @ \cup {"restart"}]
              ELSE d2
    IN  ReadOrInitialize(d3)

\* Optimizer.__init__(atoms, restart, logfile, trajectory, force_consistent=...)
OptimizerInit(d, restartArg, logArg, trajArg, fcArg) ==
    LET d0 == DynamicsInit(d, logArg, trajArg)
        d1 == IF Ok(d0) THEN [d0 EXCEPT !.force_consistent = fcArg] ELSE d0
        d2 == IF Ok(d1) /\ IsNone(fcArg) THEN set_force_consistent(d1) ELSE d1
        d3 == IF Ok(d2) THEN [d2 EXCEPT !.restart = restartArg, !.fmax = None,
                                        !.attrs = @ \cup {"restart"}]
              ELSE d2
    IN  ReadOrInitialize(d3)

\* Berny passes no force_consistent to Optimizer.__init__: the default, False
BernyFlag == Some(FALSE)

\* Berny.__init__(atoms, restart, logfile, trajectory): no restart data, then
\* Optimizer.__init__(self, atoms, restart, logfile, trajectory, master), with
\* force_consistent left at its default, then the step algorithm started
\* from the restart data when read() has set some.
BernyInit(d, restartArg, logArg, trajArg) ==
    LET d1 == OptimizerInit([d EXCEPT !.restart_data = None],
                            restartArg, logArg, trajArg, BernyFlag)
    IN  IF Ok(d1)
            THEN [d1 EXCEPT !.mem = IF IsNone(d1.restart_data) THEN 0
                                    ELSE Val(d1.restart_data)]
            ELSE d1

\* The __init__ of the class of d. The arguments are given by keyword, and
\* one that has the default of Optimizer.__init__ (restart None,
\* force_consistent False) is left out of the call. Berny.__init__ has no
\* parameter force_consistent, and Dynamics.__init__ neither that nor
\* restart: the call that names one of them raises TypeError before
\* __init__ runs.
ClassInit(d, restartArg, logArg, trajArg, fcArg) ==
    CASE d.cls = "Berny" ->
             IF fcArg # BernyFlag THEN Raise(d, TypeError)
             ELSE BernyInit(d, restartArg, logArg, trajArg)
      [] d.cls = "Optimizer" -> OptimizerInit(d, restartArg, logArg, trajArg, fcArg)
      [] d.cls = "Dynamics" ->
             IF fcArg # BernyFlag \/ ~IsNone(restartArg) THEN Raise(d, TypeError)
             ELSE DynamicsInit(d, logArg, trajArg)

(***************************************************************************)
(* The state machine: one Optimizer and the driver that calls it.          *)
(***************************************************************************)
\* the attributes todict() looks for that __init__ assigns
AllAttrs == {"max_steps", "restart"}

\* self, with ev the calls recorded so far for the caller; attrs are the
\* attributes assigned so far, in_step whether the exception that propagates
\* was raised inside step(), halt whether the step algorithm fails to give its
\* next geometry during the operation
Self(ev) == [nsteps |-> nsteps, max_steps |-> max_steps, fmax |-> fmax,
             observers |-> observers, pos |-> pos, profile |-> profile,
             curv |-> curv,
             force_consistent |-> force_consistent, restart |-> restart,
             restart_data |-> restart_data, mem |-> mem, fs |-> fs,
             rank |-> rank, fcs |-> fcs, fuse |-> fuse, fkind |-> fkind,
             dumped |-> dumped, cls |-> cls, logfile |-> logfile,
             logtext |-> logtext, sinks |-> sinks, attrs |-> AllAttrs,
             in_step |-> FALSE, halt |-> FALSE, ev |-> ev, exc |-> NoExc]

\* The observer lists attached right after construction, as intervals;
\* an entry's id is its position at that time.
ObsIntervals == {<<2, 1, -2>>, <<3, 0, -4>>, <<-1, 1>>}

Entries(iv) == [i \in 1..Len(iv) |-> Entry(Callable(i), iv[i])]

\* the attach calls of a driver, as pairs of a function and an interval: the
\* functions are numbered in the order of the calls, those in B raise
Script(iv, B) ==
    [i \in 1..Len(iv) |-> <<IF i \in B THEN BadCallable(i) ELSE Callable(i), iv[i]>>]

\* A generator object: pc is where it is suspended, ev the calls made while it
\* ran, last the value it yielded last, byRun whether run() made and drained it,
\* exc the exception that left it, in_step whether step() raised that one.
\* d0 is self when it was created; solo holds while nothing else has used the
\* instance since, fixed while max_steps has kept the value it had then.
\* steps is the steps argument of the call that made it, was the max_steps
\* that call found.
NoGen == [pc |-> "none", ev |-> <<>>, last |-> FALSE, byRun |-> FALSE,
          solo |-> FALSE, fixed |-> FALSE, exc |-> NoExc, in_step |-> FALSE,
          steps |-> None, was |-> 0, d0 |-> <<>>]

\* what the driver remembers of a construction: its arguments, whether the
\* restart file was there, and the calls __init__ made
NoCtor == [restart |-> None, fc |-> None, traj |-> FALSE, found |-> FALSE, text |-> <<>>,
           prior |-> None, signal |-> NoExc, resolved |-> None, ev |-> <<>>]

\* no second instance
NoOther == <<>>

\* The state after an optimizer with the default arguments of Optimizer was
\* built and its observers attached
Init ==
    /\ nsteps = 0
    /\ max_steps = DefaultMaxSteps
    /\ fmax = None
    /\ \E iv \in ObsIntervals : observers = Entries(iv)
    /\ pos = 0
    /\ profile \in Profiles
    /\ curv = None
    /\ gens = [g \in Gens |-> NoGen]
    /\ force_consistent = Some(FALSE)
    /\ restart = None
    /\ restart_data = None
    /\ mem = 0
    /\ fs = [p \in Paths |-> NoFile]
    /\ rank = 0
    /\ fcs = "yes"
    /\ fuse = -1
    /\ fkind = CalculatorError
    /\ built = "ready"
    /\ ctor = [restart |-> None, fc |-> Some(FALSE), traj |-> FALSE,
               found |-> FALSE, text |-> <<>>,
               prior |-> None, signal |-> NoExc, resolved |-> Some(FALSE),
               ev |-> <<Ev("initialize", 0, 0)>>]
    /\ nctor = 1
    /\ err = NoExc
    /\ dumped = [p \in Paths |-> None]
    /\ cls = "Berny"
    /\ logfile = None
    /\ logtext = <<>>
    /\ sinks = <<>>
    /\ hist = <<>>
    /\ other = NoOther

Active(g) == gens[g].pc \in {"start", "y0", "yloop", "yfinal"}

\* every generator in progress other than g has been interfered with;
\* mx is the value of max_steps after the operation
Disturb(gs, g, mx) ==
    [h \in Gens |-> IF h # g /\ gs[h].pc \in {"start", "y0", "yloop", "yfinal"}
                        THEN [gs[h] EXCEPT !.solo = FALSE,
                                           !.fixed = @ /\ mx = gs[h].d0.max_steps]
                        ELSE gs[h]]

\* generator objects are numbered in the order they are made
NextFree(g) == gens[g].pc = "none" /\ \A h \in Gens : h < g => gens[h].pc # "none"

\* the budget falls back to the default whenever steps is None
SetBudgetNoneResets(mx, steps) == IF IsNone(steps) THEN DefaultMaxSteps ELSE Val(steps)

\* Optimizer.irun / Optimizer.run: if steps is not None: self.max_steps = steps
SetBudget(mx, steps) == IF IsNone(steps) THEN mx ELSE Val(steps)

\* what an operation that ran on d leaves behind
Effects(d) ==
    /\ nsteps' = d.nsteps
    /\ pos' = d.pos
    /\ mem' = d.mem
    /\ fs' = d.fs
    /\ fuse' = d.fuse
    /\ err' = d.exc
    /\ dumped' = d.dumped
    /\ logtext' = d.logtext

\* Optimizer.irun(fmax, steps): returns generator g, which has not started
IrunCall(g, f, steps) ==
    /\ built = "ready"
    /\ cls # "Dynamics"
    /\ NextFree(g)
    /\ fmax' = Some(f)
    /\ max_steps' = SetBudget(max_steps, steps)
    /\ gens' = [Disturb(gens, g, SetBudget(max_steps, steps)) EXCEPT ![g] =
                   [pc |-> "start", ev |-> <<>>, last |-> FALSE, byRun |-> FALSE,
                    solo |-> TRUE, fixed |-> TRUE, exc |-> NoExc, in_step |-> FALSE,
                    steps |-> steps, was |-> max_steps,
                    d0 |-> [Self(<<>>) EXCEPT !.fmax = Some(f),
                                               !.max_steps = SetBudget(max_steps, steps)]]]
    /\ err' = NoExc
    /\ UNCHANGED <<nsteps, observers, force_consistent, restart, restart_data, mem,
                   built, ctor, nctor, env, dumped, life>>

\* Pull with the sequence using the fmax and the budget it was made with
PullOwnArguments(g) ==
    /\ built = "ready"
    /\ Active(g)
    /\ LET r == Resume([Self(gens[g].ev) EXCEPT !.fmax = gens[g].d0.fmax,
                                                !.max_steps = gens[g].d0.max_steps],
                       gens[g].pc)
       IN  /\ r.pc # "capped"
           /\ Effects(r.d)
           /\ gens' = [Disturb(gens, g, max_steps) EXCEPT
                          ![g].pc = r.pc, ![g].ev = r.d.ev,
                          ![g].exc = r.d.exc, ![g].in_step = r.d.in_step,
                          ![g].last = IF r.pc \in {"done", "raised"} THEN @ ELSE r.y]
    /\ UNCHANGED <<max_steps, fmax, observers, force_consistent, restart,
                   restart_data, built, ctor, nctor, profile, curv, rank, fcs, fkind,
                   cls, logfile, sinks, hist, other>>

\* next(gen): the generator runs to its next yield, or raises
Pull(g) ==
    /\ built = "ready"
    /\ Active(g)
    /\ LET r == Resume(Self(gens[g].ev), gens[g].pc)
       IN  /\ r.pc # "capped"
           /\ Effects(r.d)
           /\ gens' = [Disturb(gens, g, max_steps) EXCEPT
                          ![g].pc = r.pc, ![g].ev = r.d.ev,
                          ![g].exc = r.d.exc, ![g].in_step = r.d.in_step,
                          ![g].last = IF r.pc \in {"done", "raised"} THEN @ ELSE r.y]
    /\ UNCHANGED <<max_steps, fmax, observers, force_consistent, restart,
                   restart_data, built, ctor, nctor, profile, curv, rank, fcs, fkind,
                   cls, logfile, sinks, hist, other>>

\* Optimizer.run(fmax, steps): makes generator g and drains it
RunCall(g, f, steps) ==
    /\ built = "ready"
    /\ cls # "Dynamics"
    /\ NextFree(g)
    /\ fmax' = Some(f)
    /\ max_steps' = SetBudget(max_steps, steps)
    /\ \E d0 \in {[Self(<<>>) EXCEPT !.fmax = Some(f),
                                       !.max_steps = SetBudget(max_steps, steps)]} :
       \E r \in {run(d0)} :
           /\ r.pc \in {"done", "raised"}
           /\ Effects(r.d)
           /\ gens' = [Disturb(gens, g, SetBudget(max_steps, steps)) EXCEPT ![g] =
                          [pc |-> r.pc, ev |-> r.d.ev, last |-> r.ret,
                           byRun |-> TRUE, solo |-> TRUE, fixed |-> TRUE,
                           exc |-> r.d.exc, in_step |-> r.d.in_step,
                           steps |-> steps, was |-> max_steps, d0 |-> d0]]
    /\ UNCHANGED <<observers, force_consistent, restart, restart_data, built,
                   ctor, nctor, profile, curv, rank, fcs, fkind,
                   cls, logfile, sinks, hist, other>>

\* Dynamics.irun(), called on an instance of Dynamics itself: returns
\* generator g, which has not started; no attribute is assigned
DynamicsIrunCall(g) ==
    /\ built = "ready"
    /\ cls = "Dynamics"
    /\ NextFree(g)
    /\ gens' = [Disturb(gens, g, max_steps) EXCEPT ![g] =
                   [pc |-> "start", ev |-> <<>>, last |-> FALSE, byRun |-> FALSE,
                    solo |-> TRUE, fixed |-> TRUE, exc |-> NoExc, in_step |-> FALSE,
                    steps |-> None, was |-> max_steps, d0 |-> Self(<<>>)]]
    /\ err' = NoExc
    /\ UNCHANGED <<nsteps, max_steps, fmax, observers, force_consistent, restart,
                   restart_data, mem, built, ctor, nctor, env, dumped, life>>

\* Dynamics.run(), called on an instance of Dynamics itself: makes generator
\* g and drains it
DynamicsRunCall(g) ==
    /\ built = "ready"
    /\ cls = "Dynamics"
    /\ NextFree(g)
    /\ \E d0 \in {Self(<<>>)} :
       \E r \in {run(d0)} :
           /\ r.pc \in {"done", "raised"}
           /\ Effects(r.d)
           /\ gens' = [Disturb(gens, g, max_steps) EXCEPT ![g] =
                          [pc |-> r.pc, ev |-> r.d.ev, last |-> r.ret,
                           byRun |-> TRUE, solo |-> TRUE, fixed |-> TRUE,
                           exc |-> r.d.exc, in_step |-> r.d.in_step,
                           steps |-> None, was |-> max_steps, d0 |-> d0]]
    /\ UNCHANGED <<max_steps, fmax, observers, force_consistent, restart,
                   restart_data, built, ctor, nctor, profile, curv, rank, fcs, fkind,
                   cls, logfile, sinks, hist, other>>

Next ==
    \/ \E g \in Gens, f \in FmaxArgs, steps \in StepsArgs : IrunCall(g, f, steps)
    \/ \E g \in Gens : Pull(g)
    \/ \E g \in Gens, f \in FmaxArgs, steps \in StepsArgs : RunCall(g, f, steps)

Spec == Init /\ [][Next]_vars

(***************************************************************************)
(* The life of an Optimizer with a restart file: construction against the  *)
(* files that are there, runs, explicit dump() calls, and a second         *)
(* Optimizer built on what the first one left.                             *)
(***************************************************************************)
\* the most Optimizer(...) constructions in one behaviour
MaxCtor == 2

\* the payload of the restart file found at the start, and of a dump() call
\* made by the driver
OldPayload == 5
DumpArgs == {12}

\* self before __init__ has assigned anything
Blank ==
    [Self(<<>>) EXCEPT !.nsteps = 0, !.max_steps = DefaultMaxSteps, !.fmax = None,
                       !.observers = <<>>, !.force_consistent = Some(FALSE),
                       !.restart = None, !.restart_data = None, !.mem = 0,
                       !.cls = "Berny", !.logfile = None, !.logtext = <<>>,
                       !.sinks = <<>>, !.attrs = {}]

\* opt = c(atoms, restart=restartArg, logfile=logArg, trajectory=...,
\* force_consistent=fcArg). When __init__ raises, the instance keeps what
\* __init__ had assigned by then: the trajectory sink stays in its list.
\* ctor keeps, besides the arguments: whether the restart file was there, its
\* text, the payload dumped there before, what the provider does now with a
\* request for a force-consistent energy, and the flag __init__ leaves.
ConstructAs(c, restartArg, logArg, trajArg, fcArg) ==
    /\ nctor < MaxCtor
    /\ \E d \in {ClassInit([Blank EXCEPT !.cls = c], restartArg, logArg, trajArg, fcArg)} :
           /\ built' = IF Ok(d) THEN "ready" ELSE "failed"
           /\ cls' = c
           /\ logfile' = d.logfile
           /\ logtext' = d.logtext
           /\ sinks' = d.sinks
           /\ nsteps' = d.nsteps
           /\ max_steps' = d.max_steps
           /\ fmax' = d.fmax
           /\ observers' = d.observers
           /\ force_consistent' = d.force_consistent
           /\ restart' = d.restart
           /\ restart_data' = d.restart_data
           /\ mem' = d.mem
           /\ fuse' = d.fuse
           /\ err' = d.exc
           /\ ctor' = [restart |-> restartArg, fc |-> fcArg, traj |-> trajArg,
                       found |-> ~IsNone(restartArg) /\ isfile(fs, Val(restartArg)),
                       text |-> IF IsNone(restartArg) THEN <<>>
                                ELSE fs[Val(restartArg)].text,
                       prior |-> IF IsNone(restartArg) THEN None
                                 ELSE dumped[Val(restartArg)],
                       signal |-> Outcome(Blank, "energy", TRUE),
                       resolved |-> d.force_consistent,
                       ev |-> d.ev]
    /\ gens' = [g \in Gens |-> NoGen]
    /\ nctor' = nctor + 1
    /\ hist' = <<>>
    /\ UNCHANGED <<pos, profile, curv, fs, rank, fcs, fkind, dumped, other>>

\* an object with none of __call__, write and set_description
Inert(id) == Fn(id, FALSE, FALSE, FALSE, FALSE)

NoFn == Inert(0)

\* what is remembered of a call the driver made: the arguments, self before
\* (d0) and after (d1), and the exception raised
CallRec(op, function, position, interval, d0, d1) ==
    [op |-> op, function |-> function, position |-> position, interval |-> interval,
     obs0 |-> d0.observers, obs1 |-> d1.observers, n0 |-> d0.nsteps, n1 |-> d1.nsteps,
     sinks0 |-> d0.sinks, sinks1 |-> d1.sinks,
     ev |-> d1.ev, exc |-> d1.exc]

NCalls(ops) == Cardinality({i \in 1..Len(hist) : hist[i].op \in ops})

\* the most calls of step() the driver makes itself
MaxDirect == 1

\* no irun() or run() call has been made on the instance
NoRunYet == \A g \in Gens : gens[g].pc = "none"

\* opt.set_force_consistent(), called by the driver before it makes a run
SetForceConsistentCall ==
    /\ built = "ready"
    /\ cls # "Dynamics"
    /\ NoRunYet
    /\ \E d \in {set_force_consistent(Self(<<>>))} :
           /\ Effects(d)
           /\ force_consistent' = d.force_consistent
    /\ UNCHANGED <<max_steps, fmax, observers, gens, restart, restart_data, built,
                   ctor, nctor, profile, curv, rank, fcs, fkind, cls, logfile,
                   sinks, hist, other>>

\* opt.read(), called by the driver before it makes a run, with a restart
\* file in place
ReadCall ==
    /\ built = "ready"
    /\ cls # "Dynamics"
    /\ NoRunYet
    /\ ~IsNone(restart)
    /\ isfile(fs, Val(restart))
    /\ \E d \in {read(Self(<<>>))} :
           /\ restart_data' = d.restart_data
           /\ err' = d.exc
    /\ UNCHANGED <<nsteps, max_steps, fmax, observers, gens, force_consistent,
                   restart, mem, built, ctor, nctor, env, dumped, cls, logfile,
                   logtext, sinks, hist, other>>

\* opt.step(), called by the driver before it makes a run: nsteps is left
\* to irun()
StepCall ==
    /\ built = "ready"
    /\ NoRunYet
    /\ NCalls({"step"}) < MaxDirect
    /\ \E d \in {step(Self(<<>>))} :
           /\ Effects(d)
           /\ hist' = Append(hist, CallRec("step", NoFn, 0, 0, Self(<<>>), d))
    /\ UNCHANGED <<max_steps, fmax, observers, gens, force_consistent, restart,
                   restart_data, built, ctor, nctor, profile, curv, rank, fcs, fkind,
                   cls, logfile, sinks, other>>

\* opt = Berny(atoms, restart=restartArg, logfile=None)
Construct(restartArg) ==
    ConstructAs("Berny", restartArg, None, FALSE, BernyFlag)

\* The driver registers the observers of its list script, pairs of a
\* function and an interval, one opt.attach(function, interval) at a time
\* and before it makes a run.
AttachNext(script) ==
    /\ built = "ready"
    /\ NoRunYet
    /\ Len(observers) < Len(script)
    /\ \E a \in {script[Len(observers) + 1]} :
           \E d \in {attach(Self(<<>>), a[1], a[2])} :
               /\ observers' = d.observers
               /\ sinks' = d.sinks
               /\ err' = d.exc
    /\ UNCHANGED <<nsteps, max_steps, fmax, gens, force_consistent, restart,
                   restart_data, mem, built, ctor, nctor, env, dumped,
                   cls, logfile, logtext, hist, other>>

\* opt.dump(p), called by the driver
DumpCall(p) ==
    /\ built = "ready"
    /\ fs' = dump(Self(<<>>), p).fs
    /\ dumped' = dump(Self(<<>>), p).dumped
    /\ err' = NoExc
    /\ UNCHANGED <<inst, pos, profile, curv, rank, fcs, fuse, fkind, life>>

RestartFiles == {NoFile, Garbage, File(write_json(OldPayload))}
RestartArgs == {None, Some("a"), Some("b")}
\* what the driver attaches after the construction
RestartObservers == {Script(<<1>>, {})}
RestartFmax == {1}
RestartSteps == {None, Some(1)}
\* each Optimizer of these lives makes one irun() or run() call
OneGen == {1}

InitRestart ==
    /\ nsteps = 0
    /\ max_steps = DefaultMaxSteps
    /\ fmax = None
    /\ observers = <<>>
    /\ gens = [g \in Gens |-> NoGen]
    /\ force_consistent = Some(FALSE)
    /\ restart = None
    /\ restart_data = None
    /\ mem = 0
    /\ built = "new"
    /\ ctor = NoCtor
    /\ nctor = 0
    /\ err = NoExc
    /\ pos = 0
    /\ profile = "decay"
    /\ curv = None
    /\ \E file \in RestartFiles : fs = [p \in Paths |-> IF p = "a" THEN file ELSE NoFile]
    /\ rank \in {0, 1}
    /\ fcs = "yes"
    /\ fuse = -1
    /\ fkind = NoExc
    /\ dumped = [p \in Paths |-> None]
    /\ cls = "Berny"
    /\ logfile = None
    /\ logtext = <<>>
    /\ sinks = <<>>
    /\ hist = <<>>
    /\ other = NoOther

NextRestart ==
    \/ \E r \in RestartArgs : Construct(r)
    \/ \E s \in RestartObservers : AttachNext(s)
    \/ \E p \in DumpArgs : DumpCall(p)
    \/ \E g \in OneGen, f \in RestartFmax, steps \in RestartSteps : IrunCall(g, f, steps)
    \/ \E g \in OneGen : Pull(g)
    \/ \E g \in OneGen, f \in RestartFmax, steps \in RestartSteps : RunCall(g, f, steps)

SpecRestart == InitRestart /\ [][NextRestart]_vars

(***************************************************************************)
(* The life of an Optimizer whose provider or observers fail.              *)
(***************************************************************************)
\* the provider can be made to fail at any of its next MaxFuse + 1 calls
MaxFuse == 9

\* the provider will fail, once, at call number k from now, raising x
ProviderFails(k, x) ==
    /\ fkind = NoExc
    /\ \A g \in Gens : gens[g].pc = "none"
    /\ fuse' = k
    /\ fkind' = x
    /\ UNCHANGED <<inst, pos, profile, curv, fs, rank, fcs, err, dumped, life>>

\* the provider's support for force-consistent energies changes
ProviderChanges(c) ==
    /\ built = "ready"
    /\ c # fcs
    /\ fcs' = c
    /\ UNCHANGED <<inst, pos, profile, curv, fs, rank, fuse, fkind, err, dumped, life>>

FcArgs == {None, Some(TRUE), Some(FALSE)}
FcSupport == {"yes", "noimpl", "crash"}
FailFmax == {1}
FailSteps == {Some(1), Some(2)}
\* observers attached with intervals 1, -1, 1; in the second list the second raises
FailObservers == {Script(<<1, -1, 1>>, {}), Script(<<1, -1, 1>>, {2})}
\* Optimizer takes force_consistent, Berny does not
FailConstructs == {<<"Optimizer", fc>> : fc \in FcArgs} \cup {<<"Berny", BernyFlag>>}

InitFail ==
    /\ nsteps = 0
    /\ max_steps = DefaultMaxSteps
    /\ fmax = None
    /\ observers = <<>>
    /\ gens = [g \in Gens |-> NoGen]
    /\ force_consistent = Some(FALSE)
    /\ restart = None
    /\ restart_data = None
    /\ mem = 0
    /\ built = "new"
    /\ ctor = NoCtor
    /\ nctor = 0
    /\ err = NoExc
    /\ pos = 0
    /\ profile = "decay"
    /\ curv = None
    /\ fs = [p \in Paths |-> NoFile]
    /\ rank = 0
    /\ fcs \in FcSupport
    /\ fuse = -1
    /\ fkind = NoExc
    /\ dumped = [p \in Paths |-> None]
    /\ cls = "Berny"
    /\ logfile = None
    /\ logtext = <<>>
    /\ sinks = <<>>
    /\ hist = <<>>
    /\ other = NoOther

NextFail ==
    \/ \E a \in FailConstructs :
           built # "ready" /\ ConstructAs(a[1], None, None, FALSE, a[2])
    \/ \E s \in FailObservers : AttachNext(s)
    \/ \E k \in 0..MaxFuse, x \in {PropertyNotImplementedError, CalculatorError} :
           ProviderFails(k, x)
    \/ \E c \in FcSupport : ProviderChanges(c)
    \/ \E g \in OneGen, f \in FailFmax, steps \in FailSteps : IrunCall(g, f, steps)
    \/ \E g \in OneGen : Pull(g)
    \/ \E g \in OneGen, f \in FailFmax, steps \in FailSteps : RunCall(g, f, steps)

SpecFail == InitFail /\ [][NextFail]_vars

(***************************************************************************)
(* The life of one instance of any of the classes, with its sinks: built   *)
(* with or without a log sink, a trajectory sink and a restart path, then  *)
(* observers attached and inserted, call_observers(), log(), dump() and    *)
(* load() called by the driver, and runs.                                  *)
(***************************************************************************)
\* the most attach / insert_observer calls, and the most call_observers / log
\* calls, the driver makes
MaxRegistrations == 2
MaxCalls == 2

\* the observers get the numbers of their registrations as ids
NextId == NCalls({"attach", "insert_observer"}) + 1

\* opt.attach(function, interval)
Attach(function, interval) ==
    /\ built = "ready"
    /\ NCalls({"attach", "insert_observer"}) < MaxRegistrations
    /\ LET d == attach(Self(<<>>), function, interval)
       IN  /\ observers' = d.observers
           /\ sinks' = d.sinks
           /\ err' = d.exc
           /\ hist' = Append(hist, CallRec("attach", function, 0, interval, Self(<<>>), d))
    /\ UNCHANGED <<nsteps, max_steps, fmax, gens, force_consistent, restart,
                   restart_data, mem, built, ctor, nctor, env, dumped,
                   cls, logfile, logtext, other>>

\* opt.insert_observer(function, position, interval)
InsertObserver(function, position, interval) ==
    /\ built = "ready"
    /\ NCalls({"attach", "insert_observer"}) < MaxRegistrations
    /\ LET d == insert_observer(Self(<<>>), function, position, interval)
       IN  /\ observers' = d.observers
           /\ err' = d.exc
           /\ hist' = Append(hist, CallRec("insert_observer", function, position,
                                             interval, Self(<<>>), d))
    /\ UNCHANGED <<nsteps, max_steps, fmax, gens, force_consistent, restart,
                   restart_data, mem, built, ctor, nctor, env, dumped,
                   cls, logfile, logtext, sinks, other>>

\* opt.call_observers()
CallObservers ==
    /\ built = "ready"
    /\ NCalls({"call_observers", "log"}) < MaxCalls
    /\ LET d == call_observers(Self(<<>>))
       IN  /\ err' = d.exc
           /\ nsteps' = d.nsteps
           /\ observers' = d.observers
           /\ hist' = Append(hist, CallRec("call_observers", NoFn, 0, 0, Self(<<>>), d))
    /\ UNCHANGED <<max_steps, fmax, gens, force_consistent, restart, restart_data,
                   mem, built, ctor, nctor, env, dumped, cls, logfile, logtext,
                   sinks, other>>

\* opt.log()
LogCall ==
    /\ built = "ready"
    /\ NCalls({"call_observers", "log"}) < MaxCalls
    /\ LET d == log(Self(<<>>))
       IN  /\ Effects(d)
           /\ hist' = Append(hist, CallRec("log", NoFn, 0, 0, Self(<<>>), d))
    /\ UNCHANGED <<max_steps, fmax, observers, gens, force_consistent, restart,
                   restart_data, built, ctor, nctor, profile, curv, rank, fcs, fkind,
                   cls, logfile, sinks, other>>

\* opt.load(), called by the driver when the restart file is there
LoadCall ==
    /\ built = "ready"
    /\ cls # "Dynamics"
    /\ ~IsNone(restart)
    /\ isfile(fs, Val(restart))
    /\ err' = load(Self(<<>>)).d.exc
    /\ UNCHANGED <<inst, env, dumped, life>>

\* no generator is suspended
Idle == \A g \in Gens : ~Active(g)

\* the constructions: the class, the restart path, the log sink, whether a
\* trajectory sink is given, and force_consistent, which the last call gives
\* to the class that does not take it
ConstructArgs ==
    {<<"Berny", Some("a"), Some("-"), TRUE, BernyFlag>>,
     <<"Berny", None, None, FALSE, BernyFlag>>,
     <<"Optimizer", Some("a"), None, FALSE, BernyFlag>>,
     <<"Optimizer", None, Some("-"), TRUE, BernyFlag>>,
     <<"Dynamics", None, None, FALSE, BernyFlag>>,
     <<"Dynamics", None, Some("-"), TRUE, BernyFlag>>,
     <<"Berny", None, None, TRUE, None>>}
\* what the driver attaches
AttachArgs ==
    {<<Callable(NextId), 1>>, <<BadCallable(NextId), 2>>, <<Writer(NextId), 0>>,
     <<TrajectorySink(NextId), -1>>, <<Inert(NextId), 1>>}
\* what the driver inserts, and where
InsertArgs ==
    {<<Callable(NextId), 0, 1>>, <<Callable(NextId), 1, 1>>, <<Writer(NextId), -1, -1>>}
\* run(fmax, steps): with fmax = 0.02 the decaying provider converges after
\* two steps
SinkRuns == {<<2, None>>, <<2, Some(0)>>}

\* the ranks a process of the run may have
Ranks == {0, 1}

\* the instance not yet built, in a process with one of ranks, with one of
\* files at restart path "a"
InitSinksWith(files, ranks) ==
    /\ nsteps = 0
    /\ max_steps = DefaultMaxSteps
    /\ fmax = None
    /\ observers = <<>>
    /\ gens = [g \in Gens |-> NoGen]
    /\ force_consistent = Some(FALSE)
    /\ restart = None
    /\ restart_data = None
    /\ mem = 0
    /\ built = "new"
    /\ ctor = NoCtor
    /\ nctor = 0
    /\ err = NoExc
    /\ pos = 0
    /\ profile = "decay"
    /\ curv = None
    /\ \E file \in files : fs = [p \in Paths |-> IF p = "a" THEN file ELSE NoFile]
    /\ rank \in ranks
    /\ fcs = "yes"
    /\ fuse = -1
    /\ fkind = NoExc
    /\ dumped = [p \in Paths |-> None]
    /\ cls = "Berny"
    /\ logfile = None
    /\ logtext = <<>>
    /\ sinks = <<>>
    /\ hist = <<>>
    /\ other = NoOther

InitSinks == InitSinksWith({NoFile}, Ranks)
\* the restart path may hold a file cut short
SinkFiles == {NoFile, Garbage}
InitSinkFiles == InitSinksWith(SinkFiles, {0})

NextSinks ==
    \/ \E a \in ConstructArgs :
           built = "new" /\ ConstructAs(a[1], a[2], a[3], a[4], a[5])
    \/ \E a \in AttachArgs : Attach(a[1], a[2])
    \/ \E a \in InsertArgs : InsertObserver(a[1], a[2], a[3])
    \/ CallObservers
    \/ \E g \in OneGen, a \in SinkRuns : RunCall(g, a[1], a[2])
    \/ \E g \in OneGen : DynamicsRunCall(g)
    \/ \E g \in OneGen : DynamicsIrunCall(g)
    \/ \E g \in OneGen : Pull(g)

SpecSinks == InitSinkFiles /\ [][NextSinks]_vars

(***************************************************************************)
(* The life of an optimizer with a log sink: runs pulled or drained, with  *)
(* log() called by the driver at any point, and call_observers(), load()   *)
(* and registrations of observers while no generator is suspended; step()  *)
(* writes the restart file that load() reads. The process has rank 0 or    *)
(* another rank, and the instance may be one of Dynamics itself, run by    *)
(* Dynamics.irun() and Dynamics.run().                                     *)
(***************************************************************************)
LogConstructs ==
    {<<"Berny", Some("a"), Some("-"), FALSE>>, <<"Optimizer", None, Some("-"), FALSE>>,
     <<"Berny", None, None, FALSE>>, <<"Dynamics", None, Some("-"), FALSE>>}
LogAttach == {<<BadCallable(NextId), -1>>}
LogInsert == {<<Callable(NextId), 0, 1>>}
\* run(fmax, steps): to convergence
LogRuns == {<<2, None>>}

NextLog ==
    \/ \E a \in LogConstructs :
           built = "new" /\ ConstructAs(a[1], a[2], a[3], a[4], BernyFlag)
    \/ \E a \in LogAttach : Idle /\ Attach(a[1], a[2])
    \/ \E a \in LogInsert : Idle /\ InsertObserver(a[1], a[2], a[3])
    \/ Idle /\ CallObservers
    \/ LogCall
    \/ Idle /\ LoadCall
    \/ \E g \in OneGen, a \in LogRuns : IrunCall(g, a[1], a[2])
    \/ \E g \in OneGen : Pull(g)
    \/ \E g \in Gens \ OneGen, a \in LogRuns : RunCall(g, a[1], a[2])
    \/ \E g \in OneGen : DynamicsIrunCall(g)
    \/ \E g \in Gens \ OneGen : DynamicsRunCall(g)

SpecLog == InitSinks /\ [][NextLog]_vars

(***************************************************************************)
(* The life of an instance for which no step() is supplied, an Optimizer   *)
(* or a Dynamics itself: built, observers attached while no generator is   *)
(* suspended, then a sequence pulled and a run, each of which may or may   *)
(* not attempt a step.                                                     *)
(***************************************************************************)
\* the classes that inherit Dynamics.step, each with the log sink "-"
NoStepConstructs == {<<"Optimizer", Some("-")>>, <<"Dynamics", Some("-")>>}
NoStepAttach == {<<Callable(NextId), 1>>, <<Writer(NextId), -1>>}
\* run(fmax, steps) and irun(fmax, steps): with fmax = 0.02 the initial state
\* fails the force test, with fmax = 0.04 it passes; with steps = 0 the
\* budget is used up at the start
NoStepRuns == {<<2, None>>, <<2, Some(0)>>, <<4, None>>}

InitNoStep == InitSinksWith({NoFile}, {0})

NextNoStep ==
    \/ \E a \in NoStepConstructs :
           built = "new" /\ ConstructAs(a[1], None, a[2], FALSE, BernyFlag)
    \/ \E a \in NoStepAttach : Idle /\ Attach(a[1], a[2])
    \/ \E g \in OneGen, a \in NoStepRuns : IrunCall(g, a[1], a[2])
    \/ \E g \in OneGen : DynamicsIrunCall(g)
    \/ \E g \in OneGen : Pull(g)
    \/ \E g \in Gens \ OneGen, a \in NoStepRuns : RunCall(g, a[1], a[2])
    \/ \E g \in Gens \ OneGen : DynamicsRunCall(g)

SpecNoStep == InitNoStep /\ [][NextNoStep]_vars

(***************************************************************************)
(* Two instances, each with its own system state, provider and observers,  *)
(* and one driver that pulls the irun() sequences of both in any order.    *)
(* The first instance is the one of the variables; the second is the       *)
(* record other: d is its self, and the other fields are those of a        *)
(* generator object, with seen the lengths the first sequence's record had *)
(* when the second was pulled.                                             *)
(***************************************************************************)
\* OtherSelf with the step counter being one counter shared by all instances
OtherSelfSharedCounter(ev) ==
    [other.d EXCEPT !.nsteps = nsteps, !.ev = ev, !.exc = NoExc]

\* self of the second instance: its attributes are its own
OtherSelf(ev) == [other.d EXCEPT !.ev = ev, !.exc = NoExc]

OtherActive == other.pc \in {"start", "y0", "yloop", "yfinal"}

\* gen2 = other.irun(fmax, steps)
OtherIrunCall(f, steps) ==
    /\ other.pc = "none"
    /\ LET d0 == [OtherSelf(<<>>) EXCEPT !.fmax = Some(f),
                                         !.max_steps = SetBudget(@, steps)]
       IN  other' = [other EXCEPT !.pc = "start", !.d = d0, !.d0 = d0]
    /\ UNCHANGED <<inst, env, err, dumped, cls, logfile, logtext, sinks, hist>>

\* next(gen2)
OtherPull ==
    /\ OtherActive
    /\ LET r == Resume(OtherSelf(other.ev), other.pc)
       IN  /\ r.pc # "capped"
           /\ other' = [other EXCEPT
                           !.d = r.d, !.pc = r.pc, !.ev = r.d.ev, !.exc = r.d.exc,
                           !.last = IF r.pc \in {"done", "raised"} THEN @ ELSE r.y,
                           !.seen = @ \cup {Len(gens[1].ev)}]
    /\ UNCHANGED <<inst, env, err, dumped, cls, logfile, logtext, sinks, hist>>

\* the observers and providers of the second instance
OtherIntervals == {<<-1, 1>>, <<1>>}
OtherProfiles == {"const2", "decay"}
TwoFmax == {1, 3}
TwoSteps == {None, Some(1)}

InitTwo ==
    /\ nsteps = 0
    /\ max_steps = DefaultMaxSteps
    /\ fmax = None
    /\ observers = Entries(<<2, 1, -2>>)
    /\ pos = 0
    /\ profile = "decay"
    /\ curv = None
    /\ gens = [g \in Gens |-> NoGen]
    /\ force_consistent = Some(FALSE)
    /\ restart = None
    /\ restart_data = None
    /\ mem = 0
    /\ fs = [p \in Paths |-> NoFile]
    /\ rank = 0
    /\ fcs = "yes"
    /\ fuse = -1
    /\ fkind = CalculatorError
    /\ built = "ready"
    /\ ctor = [restart |-> None, fc |-> Some(FALSE), traj |-> FALSE,
               found |-> FALSE, text |-> <<>>,
               prior |-> None, signal |-> NoExc, resolved |-> Some(FALSE),
               ev |-> <<Ev("initialize", 0, 0)>>]
    /\ nctor = 1
    /\ err = NoExc
    /\ dumped = [p \in Paths |-> None]
    /\ cls = "Berny"
    /\ logfile = None
    /\ logtext = <<>>
    /\ sinks = <<>>
    /\ hist = <<>>
    /\ \E iv \in OtherIntervals, prof \in OtherProfiles :
           other = [pc |-> "none", ev |-> <<>>, last |-> FALSE, exc |-> NoExc,
                    seen |-> {}, d0 |-> <<>>,
                    d |-> [Blank EXCEPT !.observers = Entries(iv), !.profile = prof,
                                        !.pos = 0, !.attrs = AllAttrs]]

NextTwo ==
    \/ \E g \in OneGen, f \in TwoFmax, steps \in TwoSteps : IrunCall(g, f, steps)
    \/ \E g \in OneGen : Pull(g)
    \/ \E f \in TwoFmax, steps \in TwoSteps : OtherIrunCall(f, steps)
    \/ OtherPull

SpecTwo == InitTwo /\ [][NextTwo]_vars

(***************************************************************************)
(* What a generator's record says about the run it made.                   *)
(***************************************************************************)
\* the indices of the events of kind k
Idx(ev, k) == {i \in 1..Len(ev) : ev[i].k = k}

\* the number of step() calls made
NStepCalls(ev) == Cardinality(Idx(ev, "step"))

\* how often observer id was invoked at step count n
Fired(ev, id, n) ==
    Cardinality({i \in Idx(ev, "obs") : ev[i].a = id /\ ev[i].n = n})

\* the sequence has produced its last value (everything but StopIteration is done)
Complete(g) == gens[g].pc \in {"yfinal", "done"}

\* a fresh run: nsteps was 0 when the generator was made
Fresh(g) == gens[g].pc # "none" /\ gens[g].d0.nsteps = 0

\* a run driven on its own to completion
SoloRun(g) == Complete(g) /\ gens[g].solo

StepCounts == 0..(MaxNsteps + 1)

(***************************************************************************)
(* C1: in a fresh run driven to completion that performs K steps, an       *)
(* observer with interval N > 0 is invoked exactly once at each step count *)
(* in {0, N, 2N, ...} within [0, K], and at no other step count.           *)
(***************************************************************************)
C1_PeriodicObserver ==
    \A g \in Gens : (SoloRun(g) /\ Fresh(g)) =>
        LET ev == gens[g].ev
            K  == NStepCalls(ev)
            obs == gens[g].d0.observers
        IN  \A i \in 1..Len(obs) : obs[i].interval > 0 =>
                \A n \in StepCounts :
                    Fired(ev, obs[i].id, n) =
                        (IF n <= K /\ n % obs[i].interval = 0 THEN 1 ELSE 0)

\* a fresh irun() sequence pulled to the end after 3 steps, with an observer of
\* interval 2 (fired at 0 and 2, not at 1 and 3)
C1_Witness ==
    \E g \in Gens :
        /\ SoloRun(g) /\ Fresh(g) /\ ~gens[g].byRun
        /\ NStepCalls(gens[g].ev) = 3
        /\ \E i \in 1..Len(gens[g].d0.observers) :
               /\ gens[g].d0.observers[i].interval = 2
               /\ Fired(gens[g].ev, gens[g].d0.observers[i].id, 2) = 1
               /\ Fired(gens[g].ev, gens[g].d0.observers[i].id, 3) = 0

(***************************************************************************)
(* C2, as stated: in every run of K steps an observer with interval N <= 0 *)
(* fires exactly once, at step count |N|, and at no other step count.      *)
(* It fails for |N| > K: the run ends before step |N| and the observer is  *)
(* never invoked.                                                          *)
(***************************************************************************)
C2_AsStated ==
    \A g \in Gens : (SoloRun(g) /\ Fresh(g)) =>
        LET ev == gens[g].ev
            obs == gens[g].d0.observers
        IN  \A i \in 1..Len(obs) : obs[i].interval <= 0 =>
                \A n \in StepCounts :
                    Fired(ev, obs[i].id, n) =
                        (IF n = Abs(obs[i].interval) THEN 1 ELSE 0)

(***************************************************************************)
(* C2, amended: in a fresh run of K steps driven to completion an observer *)
(* with interval N <= 0 fires exactly once, at step count |N|, when        *)
(* |N| <= K, and not at all when |N| > K; never at any other step count.   *)
(***************************************************************************)
C2_OneShotObserver ==
    \A g \in Gens : (SoloRun(g) /\ Fresh(g)) =>
        LET ev == gens[g].ev
            K  == NStepCalls(ev)
            obs == gens[g].d0.observers
        IN  \A i \in 1..Len(obs) : obs[i].interval <= 0 =>
                \A n \in StepCounts :
                    Fired(ev, obs[i].id, n) =
                        (IF n = Abs(obs[i].interval) /\ n <= K THEN 1 ELSE 0)

\* a fresh run of 3 steps with an observer of interval -2, fired once at step 2
C2_Witness ==
    \E g \in Gens :
        /\ SoloRun(g) /\ Fresh(g)
        /\ NStepCalls(gens[g].ev) = 3
        /\ \E i \in 1..Len(gens[g].d0.observers) :
               /\ gens[g].d0.observers[i].interval = -2
               /\ Fired(gens[g].ev, gens[g].d0.observers[i].id, 2) = 1

(***************************************************************************)
(* More vocabulary for the runs.                                           *)
(***************************************************************************)
\* nsteps when generator g last ran
EndN(g) == IF gens[g].ev = <<>> THEN gens[g].d0.nsteps
           ELSE gens[g].ev[Len(gens[g].ev)].n

\* the system state when generator g last ran
EndPos(g) == gens[g].d0.pos + NStepCalls(gens[g].ev)

\* the largest squared per-atom force the provider of g returns at state p
SqAt(g, p) == MaxSqForce(Forces(gens[g].d0.profile, p))

\* fmax squared, for the fmax generator g was made with
SqFmax(g) == Val(gens[g].d0.fmax) * Val(gens[g].d0.fmax)

\* the system states a run can pass through
PosRange == 0..(2 * MaxNsteps)

(***************************************************************************)
(* C3: convergence is checked before stepping. For fmax > 0 and initial    *)
(* forces that pass the convergence test, a fresh run(fmax) calls step()   *)
(* zero times, returns true and ends with nsteps = 0; the first true of    *)
(* irun() is produced with nsteps = 0.                                     *)
(***************************************************************************)
C3_ConvergedBeforeStepping ==
    \A g \in Gens :
        (/\ Fresh(g) /\ gens[g].solo
         /\ Val(gens[g].d0.fmax) > 0
         /\ SqAt(g, gens[g].d0.pos) < SqFmax(g)) =>
            /\ NStepCalls(gens[g].ev) = 0
            /\ \A i \in Idx(gens[g].ev, "yield") :
                   gens[g].ev[i].a = 1 => gens[g].ev[i].n = 0
            /\ Complete(g) => (gens[g].last /\ EndN(g) = 0)

\* run(fmax = 0.03) on the provider of constant force 0.02 has returned true
C3_Witness ==
    \E g \in Gens :
        /\ gens[g].byRun /\ Fresh(g) /\ gens[g].solo
        /\ gens[g].d0.profile = "const2" /\ gens[g].d0.fmax = Some(3)
        /\ gens[g].last /\ nsteps = 0

(***************************************************************************)
(* C4, as stated: if the largest per-atom force magnitude stays at or      *)
(* above fmax forever, a fresh run(fmax, steps=S) performs exactly S       *)
(* steps, ends with nsteps = S = max_steps and returns false.              *)
(* It fails for fmax < 0: every magnitude is at or above fmax, and the     *)
(* test compares squares, so run(-0.03) on forces 0.02 reports convergence.*)
(***************************************************************************)
C4_AsStated ==
    \A g \in Gens :
        (/\ gens[g].byRun /\ Fresh(g)
         /\ gens[g].d0.max_steps <= MaxNsteps
         /\ \A p \in PosRange :
                Val(gens[g].d0.fmax) <= 0 \/ SqAt(g, p) >= SqFmax(g)) =>
            /\ NStepCalls(gens[g].ev) = gens[g].d0.max_steps
            /\ EndN(g) = gens[g].d0.max_steps
            /\ ~gens[g].last

(***************************************************************************)
(* C4, amended: if the largest per-atom force magnitude stays at or above  *)
(* |fmax| forever, a fresh run(fmax, steps=S), S >= 0, performs exactly S  *)
(* steps, ends with nsteps = S = max_steps and returns false.              *)
(***************************************************************************)
C4_NeverConverges ==
    \A g \in Gens :
        (/\ gens[g].byRun /\ Fresh(g)
         /\ gens[g].d0.max_steps <= MaxNsteps
         /\ \A p \in PosRange : SqAt(g, p) >= SqFmax(g)) =>
            /\ NStepCalls(gens[g].ev) = gens[g].d0.max_steps
            /\ EndN(g) = gens[g].d0.max_steps
            /\ ~gens[g].last

\* run(fmax = 0.01, steps = S) with S >= 3 on the provider of constant force 0.02
\* has returned false after S steps
C4_Witness ==
    \E g \in Gens :
        /\ gens[g].byRun /\ Fresh(g)
        /\ gens[g].d0.profile = "const2" /\ gens[g].d0.fmax = Some(1)
        /\ gens[g].d0.max_steps >= 3
        /\ nsteps = gens[g].d0.max_steps /\ max_steps = nsteps
        /\ ~gens[g].last

(***************************************************************************)
(* C5: every irun() sequence is finite. While max_steps keeps the value    *)
(* the sequence was made with, a sequence whose body started with          *)
(* nsteps = n0 performs at most max(0, max_steps - n0) steps and yields at *)
(* most that many values plus two, whatever the provider returns; the pull *)
(* after its last value ends it.                                           *)
(***************************************************************************)
C5_FiniteSequence ==
    \A g \in Gens : (gens[g].fixed /\ gens[g].ev # <<>>) =>
        LET ev == gens[g].ev
            most == Max0(gens[g].d0.max_steps - ev[1].n)
        IN  /\ NStepCalls(ev) <= most
            /\ Cardinality(Idx(ev, "yield")) <= most + 2
            /\ Cardinality(Idx(ev, "yield")) <= NStepCalls(ev) + 2
            /\ gens[g].pc = "done" => ev[Len(ev)].k = "yield"

\* a sequence that started at nsteps >= 1, used up what was left of the budget
\* without converging, and has ended
C5_Witness ==
    \E g \in Gens :
        /\ gens[g].pc = "done" /\ ~gens[g].byRun /\ gens[g].fixed
        /\ gens[g].ev[1].n >= 1
        /\ NStepCalls(gens[g].ev) >= 1
        /\ NStepCalls(gens[g].ev) = gens[g].d0.max_steps - gens[g].ev[1].n
        /\ ~gens[g].last

(***************************************************************************)
(* C7, as stated: whenever run(fmax) returns with nsteps < max_steps, the  *)
(* final forces satisfy max ||F_i|| < fmax and the value returned is true. *)
(* It fails for fmax < 0: run(-0.03) on forces 0.02 returns true at        *)
(* step 0, and 0.02 < -0.03 is false.                                      *)
(***************************************************************************)
C7_AsStated ==
    \A g \in Gens : (gens[g].byRun /\ EndN(g) < gens[g].d0.max_steps) =>
        /\ Val(gens[g].d0.fmax) > 0
        /\ SqAt(g, EndPos(g)) < SqFmax(g)
        /\ gens[g].last

(***************************************************************************)
(* C7, amended: whenever run(fmax) returns with nsteps < max_steps, the    *)
(* final forces satisfy max ||F_i|| < |fmax| (the squared test             *)
(* max ||F_i||^2 < fmax^2) and the value returned is true.                 *)
(***************************************************************************)
C7_EarlyStopMeansConverged ==
    \A g \in Gens : (gens[g].byRun /\ EndN(g) < gens[g].d0.max_steps) =>
        /\ SqAt(g, EndPos(g)) < SqFmax(g)
        /\ gens[g].last

\* run(fmax = 0.01) on the decaying provider has stopped after 3 steps, below
\* its budget, with the value true
C7_Witness ==
    \E g \in Gens :
        /\ gens[g].byRun /\ gens[g].d0.profile = "decay"
        /\ NStepCalls(gens[g].ev) = 3 /\ EndN(g) < gens[g].d0.max_steps
        /\ gens[g].last

(***************************************************************************)
(* C6: run() is equivalent to pulling irun() until it is exhausted: from   *)
(* the same starting state both make the same sequence of force            *)
(* evaluations, step(), log and observer calls, end in the same nsteps     *)
(* (and system state), and run() returns the last value irun() produced.   *)
(***************************************************************************)
C6_RunDrainsIrun ==
    \A g \in Gens : (~gens[g].byRun /\ gens[g].solo /\ gens[g].pc = "done") =>
        LET r == run(gens[g].d0)
        IN  /\ r.pc = "done"
            /\ r.d.ev = gens[g].ev
            /\ r.d.nsteps = EndN(g)
            /\ r.d.pos = EndPos(g)
            /\ r.ret = gens[g].last

\* an irun() sequence pulled alone to exhaustion after 2 or more steps, its
\* last value true
C6_Witness ==
    \E g \in Gens :
        /\ ~gens[g].byRun /\ gens[g].solo /\ gens[g].pc = "done"
        /\ NStepCalls(gens[g].ev) >= 2
        /\ gens[g].last

(***************************************************************************)
(* C8: in every run the initial force evaluation precedes the first log or *)
(* observer call; for k >= 1 the step() call that produces step k and the  *)
(* increment of nsteps to k precede the log and observer calls of step k,  *)
(* and no log or observer call of step k precedes step k.                  *)
(***************************************************************************)
Notes(ev) == Idx(ev, "log") \cup Idx(ev, "obs")

C8_StepBeforeLog ==
    \A g \in Gens : gens[g].solo =>
        LET ev == gens[g].ev
        IN  \A i \in Notes(ev) :
                /\ ev[1].k = "forces" /\ 1 < i
                /\ ev[i].n >= 1 =>
                       \E j \in 1..(i - 1) :
                           /\ ev[j].k = "step" /\ ev[j].n = ev[i].n - 1
                           /\ \E y \in (j + 1)..(i - 1) :
                                  ev[y].k = "yield" /\ ev[y].n = ev[i].n
                /\ \A j \in (i + 1)..Len(ev) :
                       ev[j].k = "step" => ev[j].n >= ev[i].n

\* a run whose trace holds the log line of step 2 and a later step
C8_Witness ==
    \E g \in Gens :
        /\ gens[g].solo
        /\ \E i \in Idx(gens[g].ev, "log") :
               /\ gens[g].ev[i].n = 2
               /\ \E j \in (i + 1)..Len(gens[g].ev) : gens[g].ev[j].k = "step"

(***************************************************************************)
(* C9, as stated: irun() hands control back at exactly two kinds of        *)
(* points: once after the initial force evaluation, before any log or      *)
(* observer call, and once after each step, nsteps already incremented;    *)
(* there is no other suspension point.                                     *)
(* It fails: the sequence also suspends at `yield self.converged()` after  *)
(* the loop, which follows no step.                                        *)
(***************************************************************************)
\* the yield at index i is the one after the initial force evaluation
FirstYield(ev, i) == i = 2 /\ ev[1].k = "forces"

\* the yield at index i follows a step() call and the increment of nsteps
StepYield(ev, i) ==
    /\ i > 1 /\ ev[i - 1].k = "step" /\ ev[i].n = ev[i - 1].n + 1
    /\ \A j \in Notes(ev) : j < i => ev[j].n < ev[i].n

\* the yield at index i is the last value: it follows the loop test and the
\* final converged(), and nothing runs after it
LastYield(g, i) ==
    /\ i = Len(gens[g].ev) /\ i > 3
    /\ gens[g].ev[i - 1].k = "forces" /\ gens[g].ev[i - 2].k = "forces"
    /\ gens[g].pc \in {"yfinal", "done"}
    /\ gens[g].ev[i].a = Bit(gens[g].last)

C9_AsStated ==
    \A g \in Gens : \A i \in Idx(gens[g].ev, "yield") :
        FirstYield(gens[g].ev, i) \/ StepYield(gens[g].ev, i)

(***************************************************************************)
(* C9, amended: irun() hands control back at exactly three kinds of        *)
(* points: once after the initial force evaluation and before any log or   *)
(* observer call; once after each step (nsteps already incremented) before *)
(* that step's log and observer calls, which run only when the caller      *)
(* resumes the sequence; and once after the loop, with the value of        *)
(* converged(), after which nothing more runs. No other suspension point   *)
(* exists.                                                                 *)
(***************************************************************************)
C9_SuspensionPoints ==
    \A g \in Gens :
        LET ev == gens[g].ev
        IN  /\ \A i \in Idx(ev, "yield") :
                   \/ FirstYield(ev, i) /\ ev[i].a = 0
                   \/ StepYield(ev, i) /\ ev[i].a = 0
                   \/ LastYield(g, i)
            /\ gens[g].pc \in {"y0", "yloop", "yfinal"} => ev[Len(ev)].k = "yield"
            /\ gens[g].pc = "y0" => Len(ev) = 2
            /\ gens[g].pc = "yloop" => StepYield(ev, Len(ev))
            /\ gens[g].pc = "yfinal" => LastYield(g, Len(ev))
            /\ gens[g].pc = "start" => ev = <<>>

\* a sequence suspended at its last value after 2 steps; it has been suspended
\* after the initial forces and after each step
C9_Witness ==
    \E g \in Gens :
        /\ gens[g].pc = "yfinal" /\ ~gens[g].byRun
        /\ NStepCalls(gens[g].ev) = 2
        /\ Cardinality(Idx(gens[g].ev, "yield")) = 4

(***************************************************************************)
(* C10: within one call_observers() the triggered observers are invoked    *)
(* one after another in the order of the observer list, and the order is   *)
(* the same at every step.                                                 *)
(***************************************************************************)
\* the position of the entry with this id in the observer list
ListPos(id) == CHOOSE i \in 1..Len(observers) : observers[i].id = id

\* the ids of the entries whose rule holds at step count n, in list order
TriggeredIds(n) ==
    LET T == SelectSeq(observers, LAMBDA o : Triggered(o.interval, n))
    IN  [i \in 1..Len(T) |-> T[i].id]

C10_ListOrder ==
    \A g \in Gens :
        LET ev == gens[g].ev
        IN  /\ \A i \in Idx(ev, "obs") :
                   /\ i > 1 /\ ev[i - 1].k \in {"log", "obs"}
                   /\ ev[i - 1].k = "obs" =>
                          /\ ev[i - 1].n = ev[i].n
                          /\ ListPos(ev[i - 1].a) < ListPos(ev[i].a)
            /\ \A l \in Idx(ev, "log") :
                   LET T == TriggeredIds(ev[l].n)
                   IN  /\ Len(ev) >= l + Len(T)
                       /\ \A i \in 1..Len(T) : ev[l + i] = Ev("obs", ev[l].n, T[i])
                       /\ Len(ev) > l + Len(T) => ev[l + Len(T) + 1].k # "obs"

\* one call_observers() that invoked three observers in a row
C10_Witness ==
    \E g \in Gens : \E i \in Idx(gens[g].ev, "obs") :
        /\ i + 2 <= Len(gens[g].ev)
        /\ gens[g].ev[i + 1].k = "obs" /\ gens[g].ev[i + 2].k = "obs"

(***************************************************************************)
(* Claims about the convergence test, the restart record, the              *)
(* force-consistency flag and failures.                                    *)
(***************************************************************************)
\* the system state before the step() call recorded at index i of g's calls
PosBefore(g, i) ==
    gens[g].d0.pos + Cardinality({j \in Idx(gens[g].ev, "step") : j < i})

(***************************************************************************)
(* C11: for a system without a curvature accessor, converged() is true     *)
(* exactly when the largest squared per-atom force norm is strictly below  *)
(* fmax squared: a largest force equal to fmax is not converged, and only  *)
(* the square of fmax matters. In a run left alone, the value the sequence *)
(* ends with is that test at the final state, and every step() was taken   *)
(* from a state where the test fails.                                      *)
(***************************************************************************)
C11_SquaredForceTest ==
    \A g \in Gens : SoloRun(g) =>
        /\ gens[g].last <=> (SqAt(g, EndPos(g)) < SqFmax(g))
        /\ \A i \in Idx(gens[g].ev, "step") :
               ~(SqAt(g, PosBefore(g, i)) < SqFmax(g))

\* a run with fmax = -0.03 on the decaying provider: at the start the largest
\* force is 0.03, equal to |fmax|, so one step is taken; then the run ends
\* with the value true
C11_Witness ==
    \E g \in Gens :
        /\ SoloRun(g) /\ gens[g].d0.profile = "decay" /\ gens[g].d0.pos = 0
        /\ gens[g].d0.fmax = Some(-3)
        /\ SqAt(g, 0) = SqFmax(g)
        /\ NStepCalls(gens[g].ev) = 1
        /\ gens[g].last

\* an Optimizer(...) construction has been made and nothing was called since
\* that changes what it found
Constructed == nctor > 0

\* the calls of kind k the last construction made
CtorCalls(k) == Cardinality(Idx(ctor.ev, k))

(***************************************************************************)
(* C12: constructing an Optimizer whose read() uses load() against an      *)
(* existing restart file that does not decode fails with RestartError      *)
(* naming the restart path: the construction does not complete, read() was *)
(* called and initialize() was not, and no run can be made.                *)
(***************************************************************************)
C12_CorruptRestartFails ==
    (Constructed /\ ctor.found /\ ~Decodes(ctor.text)) =>
        /\ built = "failed"
        /\ err = RestartError(Val(ctor.restart))
        /\ CtorCalls("read") = 1
        /\ CtorCalls("initialize") = 0
        /\ \A g \in Gens : gens[g].pc = "none"

\* a construction with restart path "a", where a file cut short lies, has
\* raised RestartError with that path
C12_Witness ==
    /\ built = "failed"
    /\ ctor.restart = Some("a") /\ ctor.text = Garbage.text
    /\ err.type = "RestartError" /\ err.path = "a"

(***************************************************************************)
(* C13: restart round trip. Once the writer has dumped payload p to a      *)
(* restart path, the file there holds exactly the text of the payload      *)
(* dumped last, which decodes to it, and an Optimizer constructed next     *)
(* with that path starts from a state equal to it.                         *)
(***************************************************************************)
C13_RestartRoundTrip ==
    /\ \A q \in Paths : ~IsNone(dumped[q]) =>
           /\ isfile(fs, q)
           /\ Decodes(fs[q].text)
           /\ read_json(fs[q].text) = Val(dumped[q])
    /\ (Constructed /\ ~IsNone(ctor.prior)) =>
           /\ built = "ready"
           /\ restart_data = ctor.prior
           /\ (\A g \in Gens : gens[g].pc = "none") => mem = Val(ctor.prior)

\* the second Optimizer was built on the restart path to which the first one
\* had dumped, last, a payload of two digits over an older file, and holds it
C13_Witness ==
    /\ nctor = 2 /\ built = "ready"
    /\ ~IsNone(ctor.prior) /\ Val(ctor.prior) > 9
    /\ restart_data = ctor.prior
    /\ mem = Val(ctor.prior)
    /\ ctor.text = write_json(Val(ctor.prior))

(***************************************************************************)
(* C14: the construction of an Optimizer performs exactly one of read()    *)
(* and initialize(), before any step: read() exactly when a restart path   *)
(* was supplied and a file exists at it, initialize() otherwise.           *)
(***************************************************************************)
C14_ReadOrInitialize ==
    Constructed =>
        /\ CtorCalls("read") + CtorCalls("initialize") = 1
        /\ CtorCalls("read") = 1 <=>
               (~IsNone(ctor.restart) /\ ctor.found)
        /\ CtorCalls("step") = 0
        /\ \A g \in Gens : gens[g].pc # "none" => built = "ready"

\* one Optimizer was given a path without a file and initialized, the next
\* one the same path with the file the first had written, and read
C14_Witness ==
    /\ nctor = 2 /\ built = "ready"
    /\ ~IsNone(ctor.restart) /\ ctor.found /\ CtorCalls("read") = 1
    /\ ctor.prior = Some(1) /\ restart_data = Some(1)

(***************************************************************************)
(* C15: dump changes the restart record only on rank 0 with a restart path *)
(* set, and then only the file at that path; on another rank or without a  *)
(* restart path a dump(p) call changes neither a file nor the run state.   *)
(***************************************************************************)
C15_DumpOnlyOnWriter ==
    [][/\ fs' # fs =>
              /\ rank = 0 /\ ~IsNone(restart)
              /\ \A q \in Paths \ {Val(restart)} : fs'[q] = fs[q]
       /\ \A p \in DumpArgs :
              (DumpCall(p) /\ (rank # 0 \/ IsNone(restart))) =>
                  UNCHANGED <<inst, env, dumped>>
       /\ \A p \in DumpArgs :
              (DumpCall(p) /\ rank = 0 /\ ~IsNone(restart)) =>
                  /\ fs'[Val(restart)] = File(write_json(p))
                  /\ UNCHANGED <<inst, pos>>]_vars

\* on rank 1 an Optimizer with restart path "a" has taken steps, each with
\* its dump, and there is still no file at "a"
C15_Witness ==
    /\ rank = 1 /\ built = "ready" /\ restart = Some("a")
    /\ \E g \in Gens : NStepCalls(gens[g].ev) >= 2
    /\ ~isfile(fs, "a")

\* the restart writes made on behalf of generator g
NDumps(g) == Cardinality(Idx(gens[g].ev, "dump"))

\* the generator is suspended at a yield, or finished normally
AtYield(g) == gens[g].pc \in {"y0", "yloop", "yfinal", "done"}

(***************************************************************************)
(* C16: with a restart path on rank 0, the restart record is written after *)
(* every step of Berny: at every suspension point and at the end of a run  *)
(* the number of restart writes made by the run is the number of completed *)
(* steps, nsteps minus its value at construction (0), and the record holds *)
(* the memory of the algorithm as of the last step unless the driver has   *)
(* dumped a payload of its own since.                                      *)
(***************************************************************************)
C16_WriteEveryStep ==
    \A g \in Gens : (AtYield(g) /\ gens[g].solo /\ rank = 0 /\ ~IsNone(restart)) =>
        /\ NDumps(g) = nsteps
        /\ NDumps(g) = NStepCalls(gens[g].ev)
        /\ nsteps > 0 => dumped[Val(restart)] \in {Some(mem)} \cup {Some(p) : p \in DumpArgs}

\* a run on rank 0 with a restart path is suspended after its second step,
\* with two writes made
C16_Witness ==
    \E g \in Gens :
        /\ gens[g].pc = "yloop" /\ rank = 0 /\ ~IsNone(restart)
        /\ nsteps = 2 /\ NDumps(g) = 2

\* the requests the provider answered on behalf of generator g
NProviderCalls(g) ==
    Cardinality(Idx(gens[g].ev, "forces") \cup Idx(gens[g].ev, "energy"))

(***************************************************************************)
(* C17: set_force_consistent() is called by the construction exactly when  *)
(* the flag given is None; it leaves false when the provider signals       *)
(* property-not-implemented for the force-consistent energy and true when  *)
(* the provider answers, so that a constructed Optimizer never has the     *)
(* flag None; a flag given as true or false is kept, and the provider is   *)
(* not asked.                                                              *)
(***************************************************************************)
C17_AutoDetect ==
    Constructed =>
        /\ CtorCalls("set_force_consistent") = (IF IsNone(ctor.fc) THEN 1 ELSE 0)
        /\ built = "ready" => ~IsNone(force_consistent)
        /\ ~IsNone(ctor.fc) =>
               /\ built = "ready"
               /\ force_consistent = ctor.fc
               /\ CtorCalls("energy") = 0
        /\ (IsNone(ctor.fc) /\ ctor.signal = PropertyNotImplementedError) =>
               built = "ready" /\ force_consistent = Some(FALSE)
        /\ (IsNone(ctor.fc) /\ ctor.signal = NoExc) =>
               built = "ready" /\ force_consistent = Some(TRUE)

\* an Optimizer was constructed with the flag None against a provider that
\* signals property-not-implemented, and has the flag false
C17_Witness ==
    /\ built = "ready" /\ IsNone(ctor.fc)
    /\ ctor.signal = PropertyNotImplementedError
    /\ CtorCalls("set_force_consistent") = 1
    /\ force_consistent = Some(FALSE)

(***************************************************************************)
(* C18: the flag resolved by the construction is kept: no operation of a   *)
(* run changes it or probes the provider again, and every log() asks for   *)
(* the energy with exactly that flag, whatever the provider has become     *)
(* able to do since.                                                       *)
(***************************************************************************)
C18_FlagMemoized ==
    built = "ready" =>
        /\ force_consistent = ctor.resolved
        /\ \A g \in Gens :
               LET ev == gens[g].ev
               IN  /\ Idx(ev, "set_force_consistent") = {}
                   /\ \A i \in Idx(ev, "log") :
                          /\ i > 1 /\ ev[i - 1].k = "energy"
                          /\ ev[i - 1].a = Bit(Val(ctor.resolved))
                   /\ \A i \in Idx(ev, "energy") :
                          ev[i].a = 1 => (i < Len(ev) /\ ev[i + 1].k = "log")

\* the flag of an Optimizer was resolved to false against a provider without
\* force-consistent energies; the provider has them now, and the log line of
\* the run made since was written with the other energy
C18_Witness ==
    /\ built = "ready" /\ cls = "Optimizer" /\ IsNone(ctor.fc)
    /\ ctor.signal = PropertyNotImplementedError
    /\ force_consistent = Some(FALSE)
    /\ fcs = "yes" /\ fuse = -1 /\ fkind = NoExc
    /\ \E g \in Gens : \E i \in Idx(gens[g].ev, "log") :
           /\ gens[g].d0.fcs = "yes"
           /\ gens[g].ev[i - 1].k = "energy" /\ gens[g].ev[i - 1].a = 0

\* an Optimizer built with the flag true has logged a force-consistent energy,
\* and a Berny, whose flag is false, has logged the other energy after a step
C18_WitnessFlags ==
    \E g \in Gens : \E i \in Idx(gens[g].ev, "log") :
        /\ gens[g].ev[i - 1].k = "energy"
        /\ \/ cls = "Optimizer" /\ ctor.fc = Some(TRUE) /\ gens[g].ev[i - 1].a = 1
           \/ cls = "Berny" /\ gens[g].ev[i].n = 1 /\ gens[g].ev[i - 1].a = 0

(***************************************************************************)
(* C19: property-not-implemented is absorbed only in                       *)
(* set_force_consistent(). Any other failure of the probe leaves the       *)
(* constructor as it was raised, and a failure of the provider (property-  *)
(* not-implemented too) in the initial force evaluation, converged(),      *)
(* log() or step() leaves irun()/run() as it was raised: the run is over   *)
(* and the provider is not asked again.                                    *)
(***************************************************************************)
C19_ProviderFailurePropagates ==
    /\ (Constructed /\ IsNone(ctor.fc)
            /\ ctor.signal \notin {NoExc, PropertyNotImplementedError}) =>
           /\ built = "failed"
           /\ err = ctor.signal
           /\ CtorCalls("read") + CtorCalls("initialize") = 0
    /\ \A g \in Gens : (gens[g].pc # "none" /\ gens[g].d0.fuse >= 0 /\ fuse = -1) =>
           /\ gens[g].pc = "raised"
           /\ err = fkind
           /\ NProviderCalls(g) = gens[g].d0.fuse

\* a run whose provider signalled property-not-implemented for the energy
\* step() asked for has raised it
C19_Witness ==
    \E g \in Gens :
        /\ gens[g].pc = "raised" /\ err = PropertyNotImplementedError
        /\ gens[g].d0.fuse = 5 /\ fuse = -1
        /\ NProviderCalls(g) = 5
        /\ \E i \in Idx(gens[g].ev, "log") : gens[g].ev[i].n = 0

\* the list positions of the observers of list obs that raise when called
BadAt(obs) == {k \in 1..Len(obs) : obs[k].bad}

(***************************************************************************)
(* C20: an exception raised by an observer leaves call_observers() and     *)
(* irun()/run() and ends the run, with nothing isolated or rolled back:    *)
(* the triggered observers before it in the list have fired for that step, *)
(* those after it are not invoked, the log line of the step is already     *)
(* written, and nsteps and the system state stay as the step left them.    *)
(***************************************************************************)
C20_ObserverFailureAborts ==
    \A g \in Gens : gens[g].pc # "none" =>
        LET ev == gens[g].ev
            obs == gens[g].d0.observers
        IN  \A i \in Idx(ev, "obs") : \A b \in BadAt(obs) : ev[i].a = obs[b].id =>
                /\ i = Len(ev)
                /\ gens[g].pc = "raised"
                /\ err = ObserverError
                /\ nsteps = ev[i].n
                /\ pos = gens[g].d0.pos + NStepCalls(ev)
                /\ \E j \in Idx(ev, "log") : j < i /\ ev[j].n = ev[i].n
                /\ \A k \in 1..Len(obs) :
                       Fired(ev, obs[k].id, ev[i].n) =
                           (IF k <= b /\ Triggered(obs[k].interval, ev[i].n)
                               THEN 1 ELSE 0)

\* the second observer raised at step 1: the first had fired for that step,
\* the third, triggered too, was not invoked, and nsteps is 1
C20_Witness ==
    \E g \in Gens :
        /\ gens[g].pc = "raised" /\ err = ObserverError /\ nsteps = 1
        /\ BadAt(gens[g].d0.observers) = {2}
        /\ Fired(gens[g].ev, 1, 1) = 1
        /\ Fired(gens[g].ev, 2, 1) = 1
        /\ Fired(gens[g].ev, 3, 1) = 0 /\ Fired(gens[g].ev, 3, 0) = 1
        /\ Triggered(gens[g].d0.observers[3].interval, 1)

(***************************************************************************)
(* C21. An exception raised inside step() is not swallowed: it leaves      *)
(* irun()/run() at once and reaches the driver unchanged; nsteps is not    *)
(* incremented for the failed step, so it is still the number of steps     *)
(* that returned; nothing is recorded after the last answer of the         *)
(* provider, in particular no log call, no observer call and no yield for  *)
(* the failed step; and the sequence is finished: it has produced one      *)
(* value per step that returned plus the first, and produces no more.      *)
(***************************************************************************)
NYields(ev) == Cardinality({i \in 1..Len(ev) : ev[i].k = "yield"})

C21_StepFailureEndsRun ==
    \A g \in Gens :
        gens[g].in_step =>
            /\ gens[g].pc = "raised"
            /\ ~Active(g)
            /\ gens[g].exc # NoExc
            /\ gens[g].exc = IF cls = "Berny" THEN fkind ELSE StepNotImplemented
            /\ err = gens[g].exc
            /\ nsteps = gens[g].d0.nsteps + NStepCalls(gens[g].ev)
            /\ gens[g].ev # <<>>
            /\ gens[g].ev[Len(gens[g].ev)].k = "forces"
            /\ \A i \in 1..Len(gens[g].ev) : gens[g].ev[i].n <= nsteps
            /\ Cardinality({i \in 1..Len(gens[g].ev) :
                               gens[g].ev[i].k = "log" /\ gens[g].ev[i].n = nsteps}) = 1
            /\ NYields(gens[g].ev) = 1 + NStepCalls(gens[g].ev)

\* the second step of a sequence pulled by the driver failed, after the
\* observers were called for the first
C21_Witness ==
    \E g \in Gens :
        /\ gens[g].in_step
        /\ ~gens[g].byRun
        /\ nsteps = 1
        /\ \E i \in 1..Len(gens[g].ev) : gens[g].ev[i].k = "obs" /\ gens[g].ev[i].n = 1

(***************************************************************************)
(* C30. Every value irun() produces before the last is False: the values   *)
(* of the yields before and inside the loop are False, and of the values   *)
(* recorded for one sequence only the last can be true. In a run left      *)
(* alone the last value is the convergence test at the final state, also   *)
(* when the step that led there used up the budget: a run whose last step  *)
(* reached nsteps == max_steps and a state that passes the test ends with  *)
(* true.                                                                   *)
(***************************************************************************)
C30_TrueOnlyLast ==
    \A g \in Gens : gens[g].pc # "none" =>
        /\ \A i, j \in Idx(gens[g].ev, "yield") : i < j => gens[g].ev[i].a = 0
        /\ gens[g].pc \in {"y0", "yloop"} =>
               /\ ~gens[g].last
               /\ gens[g].ev[Len(gens[g].ev)].k = "yield"
               /\ gens[g].ev[Len(gens[g].ev)].a = 0
        /\ Complete(g) =>
               \E i \in Idx(gens[g].ev, "yield") :
                   /\ \A j \in Idx(gens[g].ev, "yield") : j <= i
                   /\ gens[g].ev[i].a = Bit(gens[g].last)
        /\ SoloRun(g) =>
               /\ gens[g].last <=> (SqAt(g, EndPos(g)) < SqFmax(g))
               /\ (/\ NStepCalls(gens[g].ev) > 0
                   /\ EndN(g) = gens[g].d0.max_steps
                   /\ SqAt(g, EndPos(g)) < SqFmax(g)) => gens[g].last

\* a run on the decaying provider with fmax = 0.03 and a budget of one step:
\* the step reaches the budget and a state that passes the test, and the value
\* after the False of the first two yields is true
C30_Witness ==
    \E g \in Gens :
        /\ SoloRun(g) /\ gens[g].d0.profile = "decay" /\ gens[g].d0.pos = 0
        /\ gens[g].d0.nsteps = 0 /\ gens[g].d0.max_steps = 1
        /\ NStepCalls(gens[g].ev) = 1
        /\ nsteps = max_steps
        /\ NYields(gens[g].ev) = 3
        /\ gens[g].last

(***************************************************************************)
(* C22. An Optimizer for which no step() is supplied is constructed, and   *)
(* has observers attached, without error. A run on it makes no step, and   *)
(* ends with RuntimeError exactly when a step is attempted, that is when   *)
(* the initial state fails the convergence test and nsteps is below the    *)
(* budget: the error comes after the initial force evaluation, the first   *)
(* value of the sequence, the step-0 log call and the step-0 observer      *)
(* calls, and after the forces of the convergence test. When the budget is *)
(* used up or the state has converged at the start, the run ends normally. *)
(* (What a run attempts is read from the state it started in, which is     *)
(* what counts for a run left alone.)                                      *)
(* An instance of Dynamics itself is constructed, and has callables        *)
(* attached, without error as well. Its log is a placeholder and it never  *)
(* converges, so every run on it attempts a step: the run makes no step    *)
(* and ends with RuntimeError after the initial force evaluation, the      *)
(* first value of the sequence and the step-0 observer calls, with nsteps  *)
(* still 0 and nothing written to the log sink.                            *)
(***************************************************************************)
\* the run of generator g attempts a step
Attempted(g) ==
    /\ ~(SqAt(g, gens[g].d0.pos) < SqFmax(g))
    /\ gens[g].d0.nsteps < gens[g].d0.max_steps

\* the observers of the list obs that are due at step count n
Due(obs, n) == {i \in 1..Len(obs) : Triggered(obs[i].interval, n)}

\* C22 for an Optimizer that inherits Dynamics.step
C22_MissingStepOptimizer ==
    (cls = "Optimizer" /\ nctor > 0) =>
        /\ built = "ready"
        /\ nsteps = 0
        /\ \A i \in 1..Len(hist) :
               (hist[i].op = "attach" /\ (hist[i].function.call \/ hist[i].function.write))
                   => hist[i].exc = NoExc
        /\ \A g \in Gens : gens[g].pc # "none" =>
               /\ NStepCalls(gens[g].ev) = 0
               /\ gens[g].pc = "raised" <=> gens[g].in_step
               /\ gens[g].in_step =>
                      /\ gens[g].solo => Attempted(g)
                      /\ gens[g].exc = StepNotImplemented
                      /\ Len(gens[g].ev) >= 6
                      /\ gens[g].ev[1] = Ev("forces", 0, 0)
                      /\ gens[g].ev[2] = Ev("yield", 0, 0)
                      /\ gens[g].ev[5] = Ev("log", 0, 0)
                      /\ \A i \in Due(gens[g].d0.observers, 0) :
                             Fired(gens[g].ev, gens[g].d0.observers[i].id, 0) = 1
                      /\ gens[g].ev[Len(gens[g].ev)] = Ev("forces", 0, 0)
                      /\ Len(gens[g].ev) = 6 + Cardinality(Due(gens[g].d0.observers, 0))
               /\ SoloRun(g) => ~Attempted(g)
               /\ (~Attempted(g) /\ gens[g].byRun) =>
                      /\ Complete(g) /\ gens[g].exc = NoExc
                      /\ gens[g].last = (SqAt(g, gens[g].d0.pos) < SqFmax(g))
                      /\ Idx(gens[g].ev, "log") # {}

\* C22 for an instance of Dynamics itself
C22_MissingStepDynamics ==
    (cls = "Dynamics" /\ nctor > 0) =>
        /\ built = "ready"
        /\ nsteps = 0
        /\ logtext = <<>>
        /\ \A i \in 1..Len(hist) :
               (/\ hist[i].op = "attach"
                /\ hist[i].function.call \/ hist[i].function.write
                /\ ~hist[i].function.describe) => hist[i].exc = NoExc
        /\ \A g \in Gens : gens[g].pc # "none" =>
               /\ NStepCalls(gens[g].ev) = 0
               /\ gens[g].pc = "raised" <=> gens[g].in_step
               /\ gens[g].byRun => gens[g].in_step
               /\ gens[g].pc \in {"start", "y0", "raised"}
               /\ gens[g].in_step =>
                      /\ gens[g].exc = StepNotImplemented
                      /\ gens[g].ev[1] = Ev("forces", 0, 0)
                      /\ gens[g].ev[2] = Ev("yield", 0, 0)
                      /\ \A i \in Due(gens[g].d0.observers, 0) :
                             Fired(gens[g].ev, gens[g].d0.observers[i].id, 0) = 1
                      /\ Len(gens[g].ev) = 2 + Cardinality(Due(gens[g].d0.observers, 0))

\* C22: an instance without step() is built and has observers attached
\* without error, and a run on it raises RuntimeError exactly when it attempts
\* a step, after the initial force evaluation and the step-0 notification
C22_MissingStep == C22_MissingStepOptimizer /\ C22_MissingStepDynamics

\* On an Optimizer without step(), with an observer due at step 0: irun()
\* was pulled, the first pull gave False, the second raised after the
\* observer was called; then run(steps=0), which finds the budget used up,
\* attempted no step and returned False without error
C22_Witness ==
    /\ cls = "Optimizer"
    /\ \E g \in Gens :
           /\ gens[g].in_step /\ ~gens[g].byRun
           /\ Due(gens[g].d0.observers, 0) # {}
           /\ gens[g].exc = StepNotImplemented
    /\ \E g \in Gens :
           /\ gens[g].byRun /\ ~Attempted(g)
           /\ gens[g].d0.max_steps = 0
           /\ gens[g].pc = "done" /\ ~gens[g].last
           /\ gens[g].exc = NoExc
    /\ err = NoExc

\* run(fmax=0.04) on an Optimizer without step(): the initial state has
\* converged, no step was attempted, and the run returned True without error
C22_WitnessConverged ==
    /\ cls = "Optimizer"
    /\ \E g \in Gens :
           /\ gens[g].byRun /\ ~Attempted(g)
           /\ gens[g].d0.nsteps < gens[g].d0.max_steps
           /\ gens[g].pc = "done" /\ gens[g].last
           /\ NStepCalls(gens[g].ev) = 0
    /\ err = NoExc

\* irun(steps=0) on an Optimizer without step() was pulled to its end
\* without error
C22_WitnessPulled ==
    /\ cls = "Optimizer"
    /\ \E g \in Gens :
           /\ ~gens[g].byRun /\ gens[g].solo /\ ~Attempted(g)
           /\ gens[g].pc = "done"
           /\ gens[g].exc = NoExc

\* run() on an instance of Dynamics itself, with an observer due at step 0:
\* the forces were asked for, the observer was called, then step() raised
C22_WitnessDynamics ==
    /\ cls = "Dynamics"
    /\ \E g \in Gens :
           /\ gens[g].in_step /\ gens[g].byRun
           /\ Due(gens[g].d0.observers, 0) # {}
           /\ Len(gens[g].ev) = 3
           /\ err = StepNotImplemented
           /\ nsteps = 0

(***************************************************************************)
(* C23. call_observers() is not deduplicated. Each call the driver makes   *)
(* leaves nsteps and the observer list as they were and, when no observer  *)
(* of the list raises, invokes each entry that is due at the current step  *)
(* count (interval > 0 and nsteps a multiple of it, or interval <= 0 and   *)
(* nsteps = |interval|) exactly once and no other entry; a second call at  *)
(* the same step count with the same list makes the same invocations       *)
(* again, so m calls invoke each due observer m times.                     *)
(***************************************************************************)
\* the trigger rule, as the claim states it
IsDue(interval, n) ==
    \/ interval > 0 /\ n % interval = 0
    \/ interval <= 0 /\ n = -interval

NoneRaises(obs) == \A k \in 1..Len(obs) : ~obs[k].bad

C23_NoDeduplication ==
    \A i \in 1..Len(hist) : hist[i].op = "call_observers" =>
        /\ hist[i].n1 = hist[i].n0
        /\ hist[i].obs1 = hist[i].obs0
        /\ NoneRaises(hist[i].obs0) =>
               /\ hist[i].exc = NoExc
               /\ \A k \in 1..Len(hist[i].obs0) :
                      Fired(hist[i].ev, hist[i].obs0[k].id, hist[i].n0)
                          = IF IsDue(hist[i].obs0[k].interval, hist[i].n0) THEN 1 ELSE 0
               /\ Len(hist[i].ev)
                      = Cardinality({k \in 1..Len(hist[i].obs0) :
                                        IsDue(hist[i].obs0[k].interval, hist[i].n0)})
        /\ \A j \in 1..Len(hist) :
               (/\ hist[j].op = "call_observers"
                /\ hist[j].n0 = hist[i].n0
                /\ hist[j].obs0 = hist[i].obs0) => hist[j].ev = hist[i].ev

\* after a run of two steps the driver has called call_observers() twice, and
\* an observer with interval 1 was invoked by each of the calls
C23_Witness ==
    /\ Len(hist) >= 2
    /\ \E i, j \in 1..Len(hist) :
           /\ i < j
           /\ hist[i].op = "call_observers" /\ hist[j].op = "call_observers"
           /\ hist[i].n0 = 2 /\ hist[j].n0 = 2
           /\ hist[i].obs0 = hist[j].obs0
           /\ NoneRaises(hist[i].obs0)
           /\ \E k \in 1..Len(hist[i].obs0) :
                  /\ hist[i].obs0[k].interval = 1
                  /\ Fired(hist[i].ev, hist[i].obs0[k].id, 2) = 1
                  /\ Fired(hist[j].ev, hist[j].obs0[k].id, 2) = 1

(***************************************************************************)
(* C24, as stated: over any sequence of run(), irun() and log() calls on   *)
(* an instance with a log sink, the header appears exactly once, before    *)
(* the first data line, and every log call writes one data line carrying   *)
(* the step count.                                                         *)
(***************************************************************************)
\* the number of log calls made at step count n, by the runs and by the driver
NLogCalls(n) ==
    Cardinality(UNION {{<<g, i>> : i \in {j \in 1..Len(gens[g].ev) :
                                             gens[g].ev[j] = Ev("log", n, 0)}} :
                       g \in Gens})
    + Cardinality({i \in 1..Len(hist) :
                    /\ hist[i].op = "log"
                    /\ hist[i].ev # <<>>
                    /\ hist[i].ev[Len(hist[i].ev)] = Ev("log", n, 0)})

\* every log call has written one data line with its step count
OneLinePerLogCall ==
    \A n \in StepCounts :
        Cardinality({i \in 1..Len(logtext) : logtext[i] = Ev("line", n, 0)})
            = NLogCalls(n)

C24_AsStated ==
    (built = "ready" /\ ~IsNone(logfile) /\ logtext # <<>>) =>
        /\ logtext[1].k = "header"
        /\ Cardinality(Idx(logtext, "header")) = 1
        /\ OneLinePerLogCall

(***************************************************************************)
(* C24, amended: a log call writes the header when, and only when, nsteps  *)
(* is 0 at the call, and then one data line carrying nsteps. So the sink   *)
(* starts with the header, every data line for step count 0 has a header   *)
(* right before it (one header per log call made at step count 0, also     *)
(* when that is not the first log call of the instance), no data line for  *)
(* a later step count has one, and there is one data line per log call.    *)
(* Without a log sink nothing is written.                                  *)
(***************************************************************************)
C24_HeaderAtStepZero ==
    built = "ready" =>
        /\ IsNone(logfile) => logtext = <<>>
        /\ logtext # <<>> => logtext[1].k = "header"
        /\ \A i \in 1..Len(logtext) :
               /\ logtext[i].k = "header" =>
                      i < Len(logtext) /\ logtext[i + 1] = Ev("line", 0, 0)
               /\ logtext[i].k = "line" =>
                      (logtext[i].n = 0 <=> (i > 1 /\ logtext[i - 1].k = "header"))
        /\ ~IsNone(logfile) => OneLinePerLogCall

\* log() was called by the driver at step count 0 and a run of two steps
\* logged step count 0 again: two headers, and a data line for step count 2
C24_Witness ==
    /\ built = "ready" /\ ~IsNone(logfile)
    /\ Cardinality(Idx(logtext, "header")) = 2
    /\ \E i \in 1..Len(hist) : hist[i].op = "log" /\ hist[i].n0 = 0
    /\ \E g \in Gens : gens[g].byRun /\ NStepCalls(gens[g].ev) = 2
    /\ \E i \in 1..Len(logtext) : logtext[i] = Ev("line", 2, 0)

(***************************************************************************)
(* C25, as stated: whenever it is called, Optimizer.todict() returns a     *)
(* description with the algorithm name, fmax, max_steps, and the restart   *)
(* path exactly when one was supplied; so does the call made while the     *)
(* trajectory sink is attached during construction.                        *)
(***************************************************************************)
\* the description todict() returns now
Description == todict(Self(<<>>)).value

\* the descriptions the trajectory sink of the constructor has received
CtorDescriptions == {i \in 1..Len(sinks) : sinks[i].id = TrajectoryId}

C25_AsStated ==
    (built = "ready" /\ cls # "Dynamics") =>
        /\ Description.optimizer = cls
        /\ {"fmax", "max_steps"} \subseteq DOMAIN Description
        /\ "restart" \in DOMAIN Description <=> ~IsNone(restart)
        /\ \A i \in CtorDescriptions :
               /\ {"fmax", "max_steps"} \subseteq DOMAIN sinks[i].desc
               /\ "restart" \in DOMAIN sinks[i].desc <=> ~IsNone(restart)

(***************************************************************************)
(* C25, amended: at any point after construction Optimizer.todict()        *)
(* returns exactly the type, the class name, max_steps and restart, the    *)
(* latter being None when no restart path was supplied; fmax is never      *)
(* part of it, also not after a run has set it. The description the        *)
(* constructor hands to the trajectory sink is made before self.restart is *)
(* assigned: it has the type, the class name, the max_steps placeholder    *)
(* and the interval 1, and no restart entry even when a path was supplied. *)
(* A sink attached later receives the full description and its interval.   *)
(***************************************************************************)
C25_Description ==
    (built = "ready" /\ cls # "Dynamics") =>
        /\ todict(Self(<<>>)).d.exc = NoExc
        /\ DOMAIN Description = {"type", "optimizer", "max_steps", "restart"}
        /\ Description.type = "optimization"
        /\ Description.optimizer = cls
        /\ Description.max_steps = max_steps
        /\ Description.restart = restart
        /\ \A i \in 1..Len(sinks) :
               IF i \in CtorDescriptions
                   THEN /\ i = 1
                        /\ DOMAIN sinks[i].desc
                               = {"type", "optimizer", "max_steps", "interval"}
                        /\ sinks[i].desc.optimizer = cls
                        /\ sinks[i].desc.max_steps = DefaultMaxSteps
                        /\ sinks[i].desc.interval = 1
                   ELSE /\ DOMAIN sinks[i].desc
                               = {"type", "optimizer", "max_steps", "restart", "interval"}
                        /\ sinks[i].desc.optimizer = cls
                        /\ sinks[i].desc.restart = restart

\* a Berny built with a restart path and a trajectory sink, after a run that
\* set fmax and max_steps: the sink's description has no restart entry, the
\* one of a sink attached afterwards has
C25_Witness ==
    /\ built = "ready" /\ cls = "Berny"
    /\ restart = Some("a")
    /\ ~IsNone(fmax) /\ max_steps = 0
    /\ Len(sinks) = 2
    /\ 1 \in CtorDescriptions
    /\ "restart" \notin DOMAIN sinks[1].desc
    /\ sinks[2].desc.restart = Some("a")
    /\ sinks[2].desc.max_steps = 0

(***************************************************************************)
(* C26, as stated: attach(observer, interval) never fails, for any integer *)
(* interval and any observer that is callable or is a sink with a write    *)
(* method (with or without set_description): it appends one entry at the   *)
(* end of the observer list and leaves the entries that were there, their  *)
(* order and nsteps unchanged.                                             *)
(***************************************************************************)
\* the attach() calls the driver made
Attaches == {i \in 1..Len(hist) : hist[i].op = "attach"}

\* record i of hist appended one entry for its observer and changed nothing else
AppendedOne(i) ==
    /\ hist[i].exc = NoExc
    /\ Len(hist[i].obs1) = Len(hist[i].obs0) + 1
    /\ SubSeq(hist[i].obs1, 1, Len(hist[i].obs0)) = hist[i].obs0
    /\ hist[i].obs1[Len(hist[i].obs1)].id = hist[i].function.id
    /\ hist[i].obs1[Len(hist[i].obs1)].interval = hist[i].interval
    /\ hist[i].n1 = hist[i].n0

C26_AsStated ==
    \A i \in Attaches :
        (hist[i].function.call \/ hist[i].function.write) => AppendedOne(i)

(***************************************************************************)
(* C26, amended: on an Optimizer, attach(observer, interval) never fails   *)
(* for any integer interval and any observer that is callable or has a     *)
(* write method: it appends one entry at the end of the observer list and  *)
(* leaves the earlier entries, their order and nsteps unchanged, and a     *)
(* sink with set_description receives todict() with the interval. On a     *)
(* Dynamics that supplies no todict(), the same holds for observers        *)
(* without set_description, while attaching a sink with set_description    *)
(* raises NotImplementedError and leaves the observer list as it was.      *)
(***************************************************************************)
C26_AttachAppends ==
    \A i \in Attaches :
        LET f == hist[i].function
        IN  /\ ((f.call \/ f.write) /\ ~(cls = "Dynamics" /\ f.describe)) =>
                   /\ AppendedOne(i)
                   /\ hist[i].obs1[Len(hist[i].obs1)].via
                          = IF f.call THEN "call" ELSE "write"
                   /\ IF f.describe
                          THEN /\ Len(hist[i].sinks1) = Len(hist[i].sinks0) + 1
                               /\ hist[i].sinks1[Len(hist[i].sinks1)].id = f.id
                               /\ hist[i].sinks1[Len(hist[i].sinks1)].desc.interval
                                      = hist[i].interval
                          ELSE hist[i].sinks1 = hist[i].sinks0
            /\ (cls = "Dynamics" /\ f.describe) =>
                   /\ hist[i].exc = NotImplementedError
                   /\ hist[i].obs1 = hist[i].obs0
                   /\ hist[i].sinks1 = hist[i].sinks0
                   /\ hist[i].n1 = hist[i].n0

\* on a Dynamics without todict() an observer was attached, and then the
\* attempt to attach a sink with set_description behind it failed
C26_Witness ==
    /\ cls = "Dynamics"
    /\ \E i, j \in Attaches :
           /\ i < j
           /\ AppendedOne(i)
           /\ hist[j].function.describe /\ hist[j].function.write
           /\ hist[j].exc = NotImplementedError
           /\ hist[j].obs0 # <<>>

(***************************************************************************)
(* C29. A trajectory sink given to the constructor is registered with      *)
(* interval 1 before the constructor of an Optimizer returns or, once      *)
(* __init__ has been entered, raises (the attach() of a bare Dynamics      *)
(* fails on todict()), so                                                  *)
(* every observer registered later with attach() comes after it in the     *)
(* list. In a fresh run of K steps driven to completion the sink is        *)
(* written once at each step count 0..K, K + 1 times in all, and at each   *)
(* step count before the observers attached later that are called there.   *)
(***************************************************************************)
\* the ids of the observers the driver registered with attach()
AttachedIds == {hist[i].function.id : i \in {j \in Attaches : hist[j].exc = NoExc}}

\* the place of observer id in the list obs (0 when it is not there)
Place(obs, id) ==
    IF \E k \in 1..Len(obs) : obs[k].id = id
        THEN CHOOSE k \in 1..Len(obs) : obs[k].id = id
        ELSE 0

C29_TrajectoryFirst ==
    (/\ ctor.traj /\ cls # "Dynamics"
     /\ (built = "ready" \/ (built = "failed" /\ err # TypeError))) =>
        /\ Place(observers, TrajectoryId) > 0
        /\ observers[Place(observers, TrajectoryId)].interval = 1
        /\ \A k \in 1..Len(observers) :
               observers[k].id \in AttachedIds => Place(observers, TrajectoryId) < k
        /\ \A g \in Gens : (SoloRun(g) /\ Fresh(g)) =>
               /\ \A n \in StepCounts :
                      Fired(gens[g].ev, TrajectoryId, n)
                          = IF n <= NStepCalls(gens[g].ev) THEN 1 ELSE 0
               /\ Cardinality({i \in Idx(gens[g].ev, "obs") :
                                  gens[g].ev[i].a = TrajectoryId})
                      = NStepCalls(gens[g].ev) + 1
               /\ \A i \in Idx(gens[g].ev, "obs") :
                      gens[g].ev[i].a \in AttachedIds =>
                          \E j \in 1..(i - 1) :
                              /\ gens[g].ev[j] = Ev("obs", gens[g].ev[i].n, TrajectoryId)
                              /\ \A m \in j..i : gens[g].ev[m].k = "obs"

\* an optimizer built with a trajectory sink, an observer attached afterwards
\* with interval 1, and a fresh run of two steps: the sink was written three
\* times, each time before the observer was called
C29_Witness ==
    /\ built = "ready" /\ ctor.traj
    /\ \E g \in Gens :
           /\ SoloRun(g) /\ Fresh(g) /\ NStepCalls(gens[g].ev) = 2
           /\ \E id \in AttachedIds :
                  \A n \in 0..2 : /\ Fired(gens[g].ev, id, n) = 1
                                  /\ Fired(gens[g].ev, TrajectoryId, n) = 1

\* the construction of a Berny with a trajectory sink and a restart file that
\* does not decode has failed, and the sink is in the list of the instance
C29_WitnessFailed ==
    /\ built = "failed" /\ ctor.traj /\ err.type = "RestartError"
    /\ Len(observers) = 1 /\ observers[1].id = TrajectoryId

(***************************************************************************)
(* C28. nsteps is a non-negative counter of the step() calls that have     *)
(* returned: 0 after construction, and at every later point the number of  *)
(* steps the runs of the instance have completed, which never decreases.   *)
(* Within a run each step() that returns is followed by a count one        *)
(* higher. Nothing else moves it: starting another irun() or run() does    *)
(* not reset it, the driver's log(), call_observers(), attach() and        *)
(* insert_observer() calls return with the count they found, dump() and    *)
(* load() leave it, and a step() or an observer that raises leaves the     *)
(* count of the steps completed before.                                    *)
(***************************************************************************)
\* the steps completed by the runs made so far
StepsCompleted ==
    Cardinality(UNION {{<<g, i>> : i \in Idx(gens[g].ev, "step")} : g \in Gens})

C28_StepCounter ==
    built = "ready" =>
        /\ nsteps >= 0
        /\ nsteps = StepsCompleted
        /\ \A i \in 1..Len(hist) : hist[i].n1 = hist[i].n0 /\ hist[i].n0 <= nsteps
        /\ \A g \in Gens : gens[g].pc # "none" =>
               /\ gens[g].d0.nsteps <= nsteps
               /\ \A i \in 1..Len(gens[g].ev) :
                      /\ gens[g].d0.nsteps <= gens[g].ev[i].n
                      /\ gens[g].ev[i].n <= nsteps
                      /\ (gens[g].solo /\ i < Len(gens[g].ev)) =>
                             gens[g].ev[i + 1].n
                                 = gens[g].ev[i].n
                                       + (IF gens[g].ev[i].k = "step" THEN 1 ELSE 0)

\* a run ended after one step because an observer raised; the driver then
\* called log(), and a second run started at count 1 and took the other step
C28_Witness ==
    /\ built = "ready" /\ nsteps = 2
    /\ gens[1].exc = ObserverError /\ NStepCalls(gens[1].ev) = 1
    /\ gens[2].pc # "none" /\ gens[2].d0.nsteps = 1
    /\ \E i \in 1..Len(hist) : hist[i].op = "log" /\ hist[i].n0 = 1

(***************************************************************************)
(* C27. When one driver pulls the irun() sequences of two independent      *)
(* instances in any order, each sequence is at every point the beginning   *)
(* of what the instance does when it is driven alone from the state its    *)
(* irun() call found, and once exhausted it is all of it: the same calls   *)
(* (force evaluations, log, observers, steps), the same values, the same   *)
(* number of steps and the same final value. The nsteps, max_steps, fmax   *)
(* and observer list of each instance are what its own sequence made them, *)
(* whatever has been pulled on the other.                                  *)
(***************************************************************************)
IsPrefix(s, t) == Len(s) <= Len(t) /\ SubSeq(t, 1, Len(s)) = s

\* g, a generator record, agrees with the run of its instance driven alone
AsAlone(g) ==
    LET alone == run(g.d0)
    IN  /\ IsPrefix(g.ev, alone.d.ev)
        /\ g.pc = "done" =>
               /\ g.ev = alone.d.ev
               /\ g.last = alone.ret
               /\ NStepCalls(g.ev) = alone.d.nsteps - g.d0.nsteps

\* the attributes self has are those of g's start and the steps g has taken
OwnAttributes(g, self) ==
    /\ self.nsteps = g.d0.nsteps + NStepCalls(g.ev)
    /\ self.max_steps = g.d0.max_steps
    /\ self.fmax = g.d0.fmax
    /\ self.observers = g.d0.observers
    /\ self.pos = g.d0.pos + NStepCalls(g.ev)

C27_IndependentInstances ==
    /\ gens[1].pc # "none" => AsAlone(gens[1]) /\ OwnAttributes(gens[1], Self(<<>>))
    /\ gens[1].pc = "none" => nsteps = 0 /\ max_steps = DefaultMaxSteps /\ IsNone(fmax)
    /\ other.pc # "none" => AsAlone(other) /\ OwnAttributes(other, other.d)
    /\ other.pc = "none" =>
           /\ other.d.nsteps = 0
           /\ other.d.max_steps = DefaultMaxSteps
           /\ IsNone(other.d.fmax)

\* both sequences are exhausted, each after at least one step; the second was
\* pulled at three different points of the first, and the two instances ended
\* with different step counts
C27_Witness ==
    /\ gens[1].pc = "done" /\ other.pc = "done"
    /\ NStepCalls(gens[1].ev) >= 1 /\ NStepCalls(other.ev) >= 1
    /\ nsteps # other.d.nsteps
    /\ Cardinality(other.seen) >= 3
    /\ observers # other.d.observers

(***************************************************************************)
(* C31: the step budget bounds the cumulative step counter. A sequence     *)
(* made by run(fmax, steps=S) or irun(fmax, steps=S) whose budget is left  *)
(* alone and that starts at nsteps = n0 calls step() only while nsteps is  *)
(* below the budget, so at most max(0, S - n0) times and never when        *)
(* S <= n0; with steps=None the budget is the max_steps the call found.    *)
(***************************************************************************)
C31_AbsoluteBudget ==
    \A g \in Gens : gens[g].pc # "none" =>
        LET ev == gens[g].ev
            S == gens[g].d0.max_steps
        IN  /\ S = (IF IsNone(gens[g].steps) THEN gens[g].was ELSE Val(gens[g].steps))
            /\ (gens[g].fixed /\ ev # <<>>) =>
                   /\ \A i \in Idx(ev, "step") : ev[i].n < S
                   /\ NStepCalls(ev) <= Max0(S - ev[1].n)
                   /\ S <= ev[1].n => NStepCalls(ev) = 0
                   /\ EndN(g) > ev[1].n => EndN(g) <= S

\* an instance that took its one allowed step under irun/run(steps=1) is run
\* again with steps=None: the budget is still 1 and the run takes no step
C31_Witness ==
    /\ gens[1].pc = "done" /\ gens[1].steps = Some(1) /\ NStepCalls(gens[1].ev) = 1
    /\ gens[2].pc = "done" /\ gens[2].fixed /\ gens[2].steps = None
    /\ gens[2].was = 1 /\ gens[2].d0.max_steps = 1
    /\ gens[2].ev[1].n = 1 /\ NStepCalls(gens[2].ev) = 0
    /\ ~gens[2].last

(***************************************************************************)
(* Runs on atoms that may expose get_curvature (a saddle-point search):    *)
(* the optimizer of Init on every kind of curvature, and on atoms without  *)
(* the accessor.                                                           *)
(***************************************************************************)
Curvatures == {None, Some("negative"), Some("flat"), Some("positive"), Some("softening")}
CurvFmax == {1, 3}
CurvSteps == {None, Some(1), Some(MaxNsteps - 1)}

InitCurv ==
    /\ nsteps = 0
    /\ max_steps = DefaultMaxSteps
    /\ fmax = None
    /\ observers = Entries(<<1>>)
    /\ pos = 0
    /\ profile \in Profiles
    /\ curv \in Curvatures
    /\ gens = [g \in Gens |-> NoGen]
    /\ force_consistent = Some(FALSE)
    /\ restart = None
    /\ restart_data = None
    /\ mem = 0
    /\ fs = [p \in Paths |-> NoFile]
    /\ rank = 0
    /\ fcs = "yes"
    /\ fuse = -1
    /\ fkind = CalculatorError
    /\ built = "ready"
    /\ ctor = [restart |-> None, fc |-> Some(FALSE), traj |-> FALSE,
               found |-> FALSE, text |-> <<>>,
               prior |-> None, signal |-> NoExc, resolved |-> Some(FALSE),
               ev |-> <<Ev("initialize", 0, 0)>>]
    /\ nctor = 1
    /\ err = NoExc
    /\ dumped = [p \in Paths |-> None]
    /\ cls = "Berny"
    /\ logfile = None
    /\ logtext = <<>>
    /\ sinks = <<>>
    /\ hist = <<>>
    /\ other = NoOther

NextCurv ==
    \/ \E g \in Gens, f \in CurvFmax, steps \in CurvSteps : IrunCall(g, f, steps)
    \/ \E g \in Gens : Pull(g)
    \/ \E g \in Gens, f \in CurvFmax, steps \in CurvSteps : RunCall(g, f, steps)

SpecCurv == InitCurv /\ [][NextCurv]_vars

\* the atoms generator g was made on expose get_curvature
HasCurvature(g) == ~IsNone(gens[g].d0.curv)

\* what get_curvature returns at the system state p
CurvAt(g, p) == get_curvature(Val(gens[g].d0.curv), p)

(***************************************************************************)
(* C32: on atoms with a curvature accessor converged() is true exactly     *)
(* when the largest squared force is below fmax squared and the curvature  *)
(* is strictly negative; without the accessor the force test decides       *)
(* alone. In a run left alone the value the sequence ends with is that     *)
(* test at the final state and every step() was taken from a state that    *)
(* fails it; when the forces are below the threshold and the curvature is  *)
(* not negative at every state the run passes, the run steps until the     *)
(* budget is used up and ends with false.                                  *)
(***************************************************************************)
C32_CurvatureTest ==
    \A g \in Gens : SoloRun(g) =>
        LET ev == gens[g].ev
            d0 == gens[g].d0
            Below(p) == SqAt(g, p) < SqFmax(g)
            Conv(p) == IF HasCurvature(g) THEN Below(p) /\ CurvAt(g, p) < 0
                                          ELSE Below(p)
        IN  /\ gens[g].last <=> Conv(EndPos(g))
            /\ \A i \in Idx(ev, "step") : ~Conv(PosBefore(g, i))
            /\ (/\ HasCurvature(g)
                /\ \A p \in d0.pos..EndPos(g) : Below(p) /\ CurvAt(g, p) >= 0)
                   => /\ ~gens[g].last
                      /\ NStepCalls(ev) = Max0(d0.max_steps - d0.nsteps)
                      /\ EndN(g) >= d0.max_steps

\* run(fmax=0.03, steps=3) on a fixed point whose curvature is 0: the forces
\* pass the test from the start, yet the run takes its 3 steps and returns
\* false
C32_Witness ==
    \E g \in Gens :
        /\ SoloRun(g) /\ gens[g].byRun
        /\ gens[g].d0.curv = Some("flat") /\ gens[g].d0.profile = "zero"
        /\ gens[g].d0.nsteps = 0 /\ gens[g].steps = Some(3)
        /\ SqAt(g, 0) < SqFmax(g)
        /\ NStepCalls(gens[g].ev) = 3
        /\ ~gens[g].last

\* on the softening mode with vanishing forces the run stops after the second
\* step, when the curvature has become negative, and returns true
C32_WitnessNegative ==
    \E g \in Gens :
        /\ SoloRun(g)
        /\ gens[g].d0.curv = Some("softening") /\ gens[g].d0.profile = "zero"
        /\ gens[g].d0.pos = 0
        /\ NStepCalls(gens[g].ev) = 2
        /\ gens[g].last

(***************************************************************************)
(* C33: in a fresh instance whose single irun() sequence is driven to      *)
(* completion and performs K steps, log() is called exactly K+1 times, at  *)
(* the step counts 0, 1, ..., K in this order, and every log() call is     *)
(* followed at once by one call_observers() at the same step count: the    *)
(* observers due at that count are called next, in list order, before      *)
(* anything else happens, and no observer is called anywhere else.         *)
(***************************************************************************)
\* the ids of the entries of obs whose rule holds at step count n, in list order
DueIds(obs, n) ==
    LET T == SelectSeq(obs, LAMBDA o : IsDue(o.interval, n))
    IN  [i \in 1..Len(T) |-> T[i].id]

\* the indices of the log() calls made at step count n
LogsAt(ev, n) == {i \in Idx(ev, "log") : ev[i].n = n}

C33_LogThenObservers ==
    \A g \in Gens : (SoloRun(g) /\ Fresh(g)) =>
        LET ev == gens[g].ev
            K == NStepCalls(ev)
            obs == gens[g].d0.observers
        IN  /\ Cardinality(Idx(ev, "log")) = K + 1
            /\ \A n \in 0..K : Cardinality(LogsAt(ev, n)) = 1
            /\ \A i, j \in Idx(ev, "log") : i < j => ev[i].n < ev[j].n
            /\ \A l \in Idx(ev, "log") :
                   LET T == DueIds(obs, ev[l].n)
                   IN  /\ l + Len(T) <= Len(ev)
                       /\ \A k \in 1..Len(T) : ev[l + k] = Ev("obs", ev[l].n, T[k])
                       /\ l + Len(T) < Len(ev) => ev[l + Len(T) + 1].k # "obs"
            /\ \A i \in Idx(ev, "obs") :
                   \E l \in Idx(ev, "log") :
                       l < i /\ i <= l + Len(DueIds(obs, ev[l].n))

\* an irun() sequence of a fresh instance pulled to the end after 3 steps, with
\* observers of intervals 2, 1 and -2: four log calls, and the one at step 2
\* is followed by the three observers in list order
C33_Witness ==
    \E g \in Gens :
        /\ SoloRun(g) /\ Fresh(g) /\ ~gens[g].byRun
        /\ NStepCalls(gens[g].ev) = 3
        /\ Cardinality(Idx(gens[g].ev, "log")) = 4
        /\ DueIds(gens[g].d0.observers, 2) = <<1, 2, 3>>
        /\ \E l \in LogsAt(gens[g].ev, 2) :
               /\ gens[g].ev[l + 1] = Ev("obs", 2, 1)
               /\ gens[g].ev[l + 3] = Ev("obs", 2, 3)

(***************************************************************************)
(* C34: insert_observer(observer, position=p, interval) with               *)
(* 0 <= p <= len(observers), for an observer that is callable or has a     *)
(* write method, puts the new entry at index p and keeps the earlier       *)
(* entries in their order on both sides of it. In every later              *)
(* call_observers() and run the new entry is called before each entry that *)
(* was at an index >= p; inserted at position 0 it is the first entry of   *)
(* the list, ahead of the trajectory sink attached at construction, and is *)
(* called before it.                                                       *)
(***************************************************************************)
\* the insert_observer() calls the driver made
Inserts == {i \in 1..Len(hist) : hist[i].op = "insert_observer"}

\* in the calls ev, at every step count, observer a is called before observer b
FiresBefore(ev, a, b) ==
    \A i, j \in Idx(ev, "obs") :
        (ev[i].a = a /\ ev[j].a = b /\ ev[i].n = ev[j].n) => i < j

\* the ids of the entries of obs at the (0-based) indices >= p
IdsFrom(obs, p) == {obs[k].id : k \in (p + 1)..Len(obs)}

C34_InsertAtPosition ==
    \A i \in Inserts :
        LET p == hist[i].position
            old == hist[i].obs0
            new == hist[i].obs1
            id == hist[i].function.id
        IN  (/\ 0 <= p /\ p <= Len(old)
             /\ hist[i].function.call \/ hist[i].function.write) =>
                /\ hist[i].exc = NoExc
                /\ Len(new) = Len(old) + 1
                /\ new[p + 1].id = id /\ new[p + 1].interval = hist[i].interval
                /\ SubSeq(new, 1, p) = SubSeq(old, 1, p)
                /\ SubSeq(new, p + 2, Len(new)) = SubSeq(old, p + 1, Len(old))
                /\ hist[i].n1 = hist[i].n0
                /\ \A b \in IdsFrom(old, p) :
                       /\ Place(observers, id) < Place(observers, b)
                       /\ \A j \in (i + 1)..Len(hist) : FiresBefore(hist[j].ev, id, b)
                       /\ \A g \in Gens : gens[g].pc # "none" =>
                              FiresBefore(gens[g].ev, id, b)
                /\ (p = 0 /\ ctor.traj) => TrajectoryId \in IdsFrom(old, p)

\* an observer inserted at position 0 of a list that holds the trajectory sink
\* of the constructor, and a call_observers() after it that called the new
\* observer first and the trajectory sink second
C34_Witness ==
    \E i \in Inserts : \E j \in (i + 1)..Len(hist) :
        /\ ctor.traj /\ hist[i].position = 0
        /\ hist[i].obs0 # <<>> /\ hist[i].obs0[1].id = TrajectoryId
        /\ hist[j].op = "call_observers"
        /\ Len(hist[j].ev) >= 2
        /\ hist[j].ev[1] = Ev("obs", 0, hist[i].function.id)
        /\ hist[j].ev[2] = Ev("obs", 0, TrajectoryId)

\* an observer inserted at position 1 between the trajectory sink and an
\* attached observer
C34_WitnessMiddle ==
    \E i \in Inserts :
        /\ hist[i].position = 1 /\ Len(hist[i].obs0) = 2
        /\ Len(observers) = 3
        /\ observers[1] = hist[i].obs0[1]
        /\ observers[2].id = hist[i].function.id
        /\ observers[3] = hist[i].obs0[2]

(***************************************************************************)
(* C35: a sequence makes the step-0 log() and call_observers() exactly     *)
(* when nsteps is 0 at the moment it is resumed after its first yield.     *)
(* Every sequence starts with a force evaluation and a yield of false;     *)
(* resumed at nsteps > 0 it goes on with the loop test and steps from the  *)
(* current counter, and its first log or observer call comes after its     *)
(* first step; resumed at nsteps = 0 it calls log() and the observers due  *)
(* at 0 before the loop test, in every run that finds nsteps = 0.          *)
(***************************************************************************)
\* generator g has been resumed after its first yield
Resumed(g) == gens[g].pc \in {"yloop", "yfinal", "done"}

\* nsteps when g was resumed after its first yield: the step count of the
\* first call it made then
ResumedAt(g) == gens[g].ev[3].n

\* the first thing g did after its first yield was log() at step count n
\* followed by the observers of obs due at n
NotifiedAt(ev, obs, n) ==
    LET T == DueIds(obs, n)
    IN  /\ Len(ev) >= 5 + Len(T)
        /\ ev[3] = Ev("forces", n, 0)
        /\ ev[4].k = "energy" /\ ev[4].n = n
        /\ ev[5] = Ev("log", n, 0)
        /\ \A k \in 1..Len(T) : ev[5 + k] = Ev("obs", n, T[k])

C35_InitialNotification ==
    \A g \in Gens : Resumed(g) =>
        LET ev == gens[g].ev
            n1 == ResumedAt(g)
            acts == {i \in 3..Len(ev) : ev[i].k \notin {"forces", "energy"}}
        IN  /\ ev[1].k = "forces" /\ ev[1].n >= gens[g].d0.nsteps
            /\ ev[2] = Ev("yield", ev[1].n, 0)
            /\ n1 >= ev[1].n
            /\ NotifiedAt(ev, observers, n1) <=> n1 = 0
            /\ n1 = 0 => Cardinality(LogsAt(ev, 0)) = 1
            /\ n1 > 0 =>
                   /\ ev[3] = Ev("forces", n1, 0)
                   /\ \A i \in Notes(ev) : ev[i].n > n1
                   /\ \A i \in acts : (\A j \in acts : i <= j) =>
                          \/ ev[i] = Ev("step", n1, 0)
                          \/ ev[i].k = "yield" /\ ev[i].n = n1 /\ Complete(g)

\* a sequence made at nsteps = 0 and pulled once, then a run that took steps,
\* then the sequence resumed: it made no step-0 notification
C35_Witness ==
    /\ Resumed(1) /\ gens[1].d0.nsteps = 0 /\ gens[1].ev[1].n = 0
    /\ ResumedAt(1) > 0
    /\ gens[2].byRun /\ NStepCalls(gens[2].ev) > 0
    /\ LogsAt(gens[1].ev, 0) = {}

\* two runs on an instance that has converged at step 0: both made the step-0
\* log call and called the observers due at 0
C35_WitnessRepeat ==
    /\ gens[1].byRun /\ gens[2].byRun /\ nsteps = 0
    /\ gens[1].last /\ gens[2].last
    /\ NotifiedAt(gens[1].ev, observers, 0)
    /\ NotifiedAt(gens[2].ev, observers, 0)
    /\ DueIds(observers, 0) # <<>>

\* a run on an instance that has taken steps: no notification before its
\* first step
C35_WitnessLater ==
    /\ gens[1].byRun /\ NStepCalls(gens[1].ev) = 1
    /\ gens[2].byRun /\ gens[2].d0.nsteps = 1 /\ NStepCalls(gens[2].ev) > 0
    /\ gens[2].ev[4] = Ev("step", 1, 0)

(***************************************************************************)
(* Two sequences of one instance under one budget: the driver may have run *)
(* the optimizer before, then makes two irun() sequences and pulls them in *)
(* any order.                                                              *)
(***************************************************************************)
PairFmax == {1}
PairSteps == {None, Some(1), Some(MaxNsteps - 1)}

\* opt.run(fmax, steps) made before any sequence exists
EarlierRun(f, steps) ==
    /\ built = "ready"
    /\ IsNone(fmax)
    /\ \A g \in Gens : gens[g].pc = "none"
    /\ fmax' = Some(f)
    /\ max_steps' = SetBudget(max_steps, steps)
    /\ \E r \in {run([Self(<<>>) EXCEPT !.fmax = Some(f),
                                         !.max_steps = SetBudget(max_steps, steps)])} :
           /\ r.pc \in {"done", "raised"}
           /\ Effects(r.d)
    /\ UNCHANGED <<gens, observers, force_consistent, restart, restart_data, built,
                   ctor, nctor, profile, curv, rank, fcs, fkind,
                   cls, logfile, sinks, hist, other>>

InitPair == Init /\ profile # "zero" /\ Len(observers) = 2

NextPair ==
    \/ \E f \in PairFmax, steps \in PairSteps : EarlierRun(f, steps)
    \/ \E g \in Gens, f \in PairFmax, steps \in PairSteps : IrunCall(g, f, steps)
    \/ \E g \in Gens : Pull(g)

SpecPair == InitPair /\ [][NextPair]_vars

\* both sequences exist, were made by irun() with the budget that is in force,
\* and the budget has not been another one since the first was made
PairFixed ==
    /\ \A g \in Gens :
           /\ gens[g].pc # "none" /\ ~gens[g].byRun /\ gens[g].fixed
           /\ gens[g].d0.max_steps = max_steps

\* the step() calls of both sequences
PairStepCalls == NStepCalls(gens[1].ev) + NStepCalls(gens[2].ev)

(***************************************************************************)
(* C36, as stated: with two sequences of one instance pulled in any order  *)
(* under a fixed budget, nsteps never exceeds max_steps. It fails on an    *)
(* instance that has already taken more steps than the budget the two      *)
(* sequences are made with: nsteps is above max_steps from the start.      *)
(***************************************************************************)
C36_AsStated == PairFixed => nsteps <= max_steps

(***************************************************************************)
(* C36, amended: with two sequences of one instance pulled in any order    *)
(* under a fixed budget, no step is taken at nsteps >= max_steps, so the   *)
(* two sequences together take at most max(0, max_steps - n0) steps, where *)
(* n0 is nsteps when the first was made, and nsteps never exceeds the      *)
(* larger of max_steps and n0: the budget test, step() and the increment   *)
(* of one iteration run within one pull.                                   *)
(***************************************************************************)
C36_NoOvershoot ==
    PairFixed =>
        LET n0 == gens[1].d0.nsteps
        IN  /\ \A g \in Gens : \A i \in Idx(gens[g].ev, "step") :
                   gens[g].ev[i].n < max_steps
            /\ PairStepCalls <= Max0(max_steps - n0)
            /\ nsteps = n0 + PairStepCalls
            /\ nsteps <= (IF n0 > max_steps THEN n0 ELSE max_steps)
            /\ n0 <= max_steps => nsteps <= max_steps

\* two sequences made with steps=3 on the provider that never converges, both
\* pulled to the end in turns: each has taken steps, nsteps is 3
C36_Witness ==
    /\ PairFixed /\ max_steps = 3 /\ nsteps = 3
    /\ gens[1].d0.nsteps = 0
    /\ NStepCalls(gens[1].ev) > 0 /\ NStepCalls(gens[2].ev) > 0
    /\ Complete(1) /\ Complete(2)
    /\ ~gens[1].last /\ ~gens[2].last

(***************************************************************************)
(* C37: Optimizer.irun(fmax, steps) assigns fmax, and max_steps when steps *)
(* is given, when it is called, and nothing else happens then: no force    *)
(* evaluation, log, observer call or step is made before the first pull.   *)
(* A second irun() made while a sequence of the same instance is in        *)
(* progress therefore changes the threshold and the budget of that         *)
(* sequence: from then on it steps only while the forces fail the test     *)
(* with the new fmax and nsteps is below the new budget, and it ends with  *)
(* the test for the new fmax.                                              *)
(***************************************************************************)
\* the step in which opt.irun(...) returns generator g
IrunReturns(g) == gens[g].pc = "none" /\ gens'[g].pc = "start"

C37_CallStep ==
    \A g \in Gens : IrunReturns(g) =>
        /\ fmax' = gens'[g].d0.fmax /\ ~IsNone(fmax')
        /\ max_steps' = (IF IsNone(gens'[g].steps) THEN max_steps
                                                   ELSE Val(gens'[g].steps))
        /\ gens'[g].ev = <<>>
        /\ \A h \in Gens \ {g} : gens'[h].ev = gens[h].ev /\ gens'[h].pc = gens[h].pc
        /\ UNCHANGED <<nsteps, pos, mem, fs, fuse, logtext, dumped, observers>>

\* generator 2 was made while generator 1 was in progress, and has not been
\* pulled
Overridden ==
    /\ gens[2].pc = "start"
    /\ gens[1].pc \in {"y0", "yloop", "yfinal", "done"} /\ ~gens[1].solo

\* the steps generator 1 took after generator 2 was made
StepsSince == {i \in Idx(gens[1].ev, "step") : gens[1].ev[i].n >= gens[2].d0.nsteps}

C37_InProgress ==
    /\ \A g \in Gens : gens[g].pc = "start" => gens[g].ev = <<>>
    /\ Overridden =>
           /\ fmax = gens[2].d0.fmax /\ max_steps = gens[2].d0.max_steps
           /\ \A i \in StepsSince :
                  /\ gens[1].ev[i].n < gens[2].d0.max_steps
                  /\ ~(SqAt(1, PosBefore(1, i)) < SqFmax(2))
           /\ (StepsSince # {} /\ Complete(1)) =>
                  /\ gens[1].last <=> (SqAt(1, EndPos(1)) < SqFmax(2))
                  /\ ~gens[1].last => nsteps >= gens[2].d0.max_steps

C37_AssignsAtCall == []C37_InProgress /\ [][C37_CallStep]_vars

\* a sequence made with fmax = 0.01 on the decaying provider, which needs 3
\* steps; a second irun(fmax = 0.03) is made after its first pull and never
\* pulled: the first sequence ends with true after one step, at forces that
\* fail its own threshold
C37_Witness ==
    /\ Overridden /\ Complete(1)
    /\ gens[1].d0.profile = "decay" /\ gens[1].d0.fmax = Some(1)
    /\ gens[2].d0.fmax = Some(3)
    /\ NStepCalls(gens[1].ev) = 1 /\ StepsSince # {}
    /\ gens[1].last
    /\ ~(SqAt(1, EndPos(1)) < SqFmax(1))

\* a sequence made with steps=3 on the provider that never converges; a second
\* irun(steps=1) is made after its first step: the first sequence ends there
C37_WitnessBudget ==
    /\ Overridden /\ Complete(1)
    /\ gens[1].d0.profile = "const2" /\ gens[1].d0.fmax = Some(1)
    /\ gens[1].steps = Some(3) /\ gens[2].steps = Some(1) /\ gens[2].d0.fmax = Some(1)
    /\ gens[2].d0.nsteps = 1
    /\ NStepCalls(gens[1].ev) = 1 /\ ~gens[1].last

(***************************************************************************)
(* An optimizer with a restart path whose step algorithm may fail after    *)
(* the restart record of the step is written, and whose driver may call    *)
(* step(), read() and set_force_consistent() itself before it makes a run. *)
(***************************************************************************)
\* next(gen) during which the step algorithm raises in next(self._berny)
PullAlgorithmFails(g) ==
    /\ built = "ready"
    /\ Active(g)
    /\ \E r \in {Resume([Self(gens[g].ev) EXCEPT !.halt = TRUE], gens[g].pc)} :
           /\ r.pc = "raised"
           /\ Effects(r.d)
           /\ gens' = [Disturb(gens, g, max_steps) EXCEPT
                          ![g].pc = r.pc, ![g].ev = r.d.ev,
                          ![g].exc = r.d.exc, ![g].in_step = r.d.in_step]
    /\ UNCHANGED <<max_steps, fmax, observers, force_consistent, restart,
                   restart_data, built, ctor, nctor, profile, curv, rank, fcs, fkind,
                   cls, logfile, sinks, hist, other>>

HaltSteps == {None, Some(2)}

NextHalt ==
    \/ \E r \in RestartArgs : Construct(r)
    \/ \E s \in RestartObservers : AttachNext(s)
    \/ \E g \in OneGen, f \in RestartFmax, steps \in HaltSteps : IrunCall(g, f, steps)
    \/ \E g \in OneGen : Pull(g)
    \/ \E g \in OneGen : PullAlgorithmFails(g)
    \/ ReadCall
    \/ StepCall
    \/ SetForceConsistentCall

SpecHalt == InitRestart /\ [][NextHalt]_vars

(***************************************************************************)
(* C38: with a restart path on rank 0, Berny.step() writes the restart     *)
(* record before it updates the positions, and nsteps is incremented after *)
(* step() returns: every position update of a run is preceded by the write *)
(* of that step and followed by the increment, the record holds the        *)
(* memory of the algorithm, and the number of writes is never below the    *)
(* number of position updates. When the step fails after dump(), the       *)
(* record holds the memory of that step, while the positions and nsteps    *)
(* are those of the steps completed before. A step() the driver calls      *)
(* itself writes the record before the positions as well, and leaves       *)
(* nsteps alone.                                                           *)
(***************************************************************************)
C38_RecordBeforeState ==
    /\ \A i \in 1..Len(hist) :
           (hist[i].op = "step" /\ hist[i].exc = NoExc) =>
               /\ hist[i].n1 = hist[i].n0
               /\ (rank = 0 /\ ~IsNone(restart)) =>
                      /\ Len(hist[i].ev) = 4
                      /\ hist[i].ev[3].k = "dump" /\ hist[i].ev[4].k = "step"
    /\ \A g \in OneGen : (gens[g].pc # "none" /\ rank = 0 /\ ~IsNone(restart)) =>
        LET ev == gens[g].ev
            d0 == gens[g].d0
            K == NStepCalls(ev)
        IN  /\ \A i \in Idx(ev, "step") :
                   /\ i > 1 /\ ev[i - 1].k = "dump" /\ ev[i - 1].n = ev[i].n
                   /\ i < Len(ev) /\ ev[i + 1] = Ev("yield", ev[i].n + 1, 0)
            /\ pos = d0.pos + K /\ nsteps = d0.nsteps + K
            /\ mem = d0.mem + NDumps(g)
            /\ K <= NDumps(g) /\ NDumps(g) <= K + 1
            /\ NDumps(g) > 0 => dumped[Val(restart)] = Some(mem)
            /\ gens[g].exc = AlgorithmError =>
                   /\ gens[g].pc = "raised" /\ gens[g].in_step
                   /\ ev[Len(ev)] = Ev("dump", nsteps, mem)
                   /\ NDumps(g) = K + 1
                   /\ dumped[Val(restart)] = Some(d0.mem + K + 1)
                   /\ fs[Val(restart)] = File(write_json(d0.mem + K + 1))

\* on rank 0 with a restart path, the second step of a sequence failed after
\* its dump: two writes, one position update, nsteps = 1
C38_Witness ==
    \E g \in OneGen :
        /\ rank = 0 /\ ~IsNone(restart)
        /\ gens[g].exc = AlgorithmError
        /\ NDumps(g) = 2 /\ NStepCalls(gens[g].ev) = 1
        /\ nsteps = 1 /\ pos = 1
        /\ dumped[Val(restart)] = Some(mem)

\* the driver has called step() itself on rank 0 with a restart path, then
\* set_force_consistent() and read(): the record is written, the positions
\* have moved, nsteps is 0, the flag is true and the restart data are those
\* of the record
C38_WitnessDirect ==
    /\ rank = 0 /\ ~IsNone(restart) /\ NoRunYet
    /\ Len(hist) = 1 /\ hist[1].op = "step" /\ hist[1].exc = NoExc
    /\ nsteps = 0 /\ pos = 1
    /\ dumped[Val(restart)] = Some(mem)
    /\ force_consistent = Some(TRUE)
    /\ restart_data = Some(mem)
====
